---- MODULE Spec2Model ----
(***************************************************************************)
(* Model of the Dockerfile build engine of docker 1.2.0 (daemon/build.go,  *)
(* here src/unnamed/part_000): the buildFile state, the instruction        *)
(* handlers, the cache probe, the commit driver and the cleanup policy of  *)
(* Build.                                                                  *)
(*                                                                         *)
(* A Go string is modelled as a sequence of tokens whose concatenation is  *)
(* the string: the characters the code looks at (" ", "/", "=", "[", ...)  *)
(* are tokens of their own, a run of other characters that no operation    *)
(* looks into may be one token ("USER", "base").  The empty string is <<>>,*)
(* fmt.Sprintf and + are \o.  A []string is a sequence of such strings.    *)
(* Image and container ids are naturals; EmptyID is the Go "".             *)
(***************************************************************************)
EXTENDS Naturals, Integers, Sequences, FiniteSets, TLC

VARIABLES
    images,        \* daemon.Graph(): the image store, id -> image
    repositories,  \* daemon.Repositories(): name -> image id
    containers,    \* the daemon's containers, id -> container
    ncontainers,   \* number of containers the daemon ever created
    nfailed,       \* number of destroy calls that failed
    b,             \* the buildFile of the running build
    vocabulary,    \* the lines the client writes Dockerfiles with
    dockerfile,    \* the lines of the client's Dockerfile that a Build has read so far
    dockerfileEnd, \* a Build has read the Dockerfile to its end
    phase,         \* "idle", "loop" (inside Build's for loop), "returned"
    result,        \* what Build returned: [id, err]
    outStream,     \* b.outStream / b.errStream of the running build
    stepN,         \* Build's step counter
    tmpdirs,       \* the temporary context directories that exist, by build number
    steps,         \* history: one record per BuildStep call of the last loop turn
    created,       \* history: containers created by the running build
    undestroyed,   \* history: containers of the running build whose destroy failed
    buildNo,       \* number of Build calls started
    previous,      \* history: dockerfile, flags, result, created of the previous build
    pathArg,       \* the source path given to checkPathForAddition
    pathErr,       \* what checkPathForAddition returned for pathArg
    store,         \* how the image store answers a lookup: "disk" or "memory"
    interp,        \* a call of ReplaceEnvMatches: [env, value, out, done]
    builders,      \* the buildFiles of builds that run at the same time, each with
                   \* its position in Build
    portJob,       \* a call of the bridge driver's AllocatePort: its job, its locals,
                   \* the PortMappings of the interface
    bridgeJob,     \* a call of the bridge driver's createBridge: its locals and what
                   \* it did to the host
    currentInterfaces, \* the bridge driver's registry: the map c, and the
                   \* networkInterface objects its pointers name
    mappedPorts,   \* the host addresses portmapper holds a mapping for
    netJobs        \* the jobs of the bridge driver that run at the same time

vars == <<images, repositories, containers, ncontainers, nfailed, b, vocabulary, dockerfile,
          dockerfileEnd, stepN,
          tmpdirs, phase, result, outStream, steps, created, undestroyed, buildNo, previous,
          pathArg, pathErr, store, interp, builders, portJob, bridgeJob, currentInterfaces,
                   mappedPorts, netJobs>>

----------------------------------------------------------------------------
(* Bounds *)

MaxLines  == 3      \* logical lines of one Dockerfile
MaxBuilds == 2      \* Build calls in one behaviour
MaxDestroyFailures == 1   \* destroy calls that fail in one behaviour

----------------------------------------------------------------------------
(* Values *)

EmptyID  == 0
NoError  == <<>>
nil      == <<>>

DefaultPathEnv == <<"/usr/local/sbin:/usr/local/bin:/usr/sbin:/usr/bin:/sbin:/bin">>

EmptyConfig ==
    [Cmd |-> nil, Entrypoint |-> nil, Env |-> nil, WorkingDir |-> <<>>,
     User |-> <<>>, ExposedPorts |-> {}, PortSpecs |-> nil, Volumes |-> {},
     OnBuild |-> nil, Image |-> EmptyID]


Max(S) == CHOOSE x \in S : \A y \in S : y <= x
Min(S) == CHOOSE x \in S : \A y \in S : x <= y

----------------------------------------------------------------------------
(* package strings, on token sequences *)

SP == " "
SL == "/"
QT == "'"     \* the double quote of a JSON string

\* strings.Index for a one-token separator: position of its first occurrence, 0 if none
Index(s, sep) ==
    IF \E i \in 1..Len(s) : s[i] = sep
    THEN Min({i \in 1..Len(s) : s[i] = sep})
    ELSE 0

\* strings.SplitN(s, sep, 2)
SplitN2(s, sep) ==
    LET i == Index(s, sep)
    IN  IF i = 0 THEN <<s>>
        ELSE <<SubSeq(s, 1, i - 1), SubSeq(s, i + 1, Len(s))>>

\* strings.Split(s, sep)
RECURSIVE Split(_, _)
Split(s, sep) ==
    LET i == Index(s, sep)
    IN  IF i = 0 THEN <<s>>
        ELSE <<SubSeq(s, 1, i - 1)>> \o Split(SubSeq(s, i + 1, Len(s)), sep)

\* strings.Join(list, sep)
RECURSIVE Join(_, _)
Join(list, sep) ==
    IF list = <<>> THEN <<>>
    ELSE IF Len(list) = 1 THEN list[1]
    ELSE list[1] \o <<sep>> \o Join(Tail(list), sep)

\* strings.Trim(s, cutset)
RECURSIVE TrimLeft(_, _)
TrimLeft(s, cutset) ==
    IF s # <<>> /\ s[1] \in cutset THEN TrimLeft(Tail(s), cutset) ELSE s

RECURSIVE TrimRight(_, _)
TrimRight(s, cutset) ==
    IF s # <<>> /\ s[Len(s)] \in cutset
    THEN TrimRight(SubSeq(s, 1, Len(s) - 1), cutset) ELSE s

Trim(s, cutset) == TrimRight(TrimLeft(s, cutset), cutset)

HasPrefix(s, prefix) ==
    /\ Len(prefix) <= Len(s)
    /\ SubSeq(s, 1, Len(prefix)) = prefix

HasSuffix(s, suffix) ==
    /\ Len(suffix) <= Len(s)
    /\ SubSeq(s, Len(s) - Len(suffix) + 1, Len(s)) = suffix

TrimPrefix(s, prefix) ==
    IF HasPrefix(s, prefix) THEN SubSeq(s, Len(prefix) + 1, Len(s)) ELSE s

\* strings.ToUpper / strings.ToLower on the instruction keywords
Keywords == {"FROM", "ONBUILD", "MAINTAINER", "RUN", "ENV", "CMD", "ENTRYPOINT",
             "EXPOSE", "USER", "INSERT", "COPY", "WORKDIR", "VOLUME", "ADD"}

LowerCased ==
    [k \in {"from", "onbuild", "maintainer", "user", "OnBuild", "Maintainer"} |->
        CASE k = "from" -> "FROM"
          [] k \in {"onbuild", "OnBuild"} -> "ONBUILD"
          [] k \in {"maintainer", "Maintainer"} -> "MAINTAINER"
          [] k = "user" -> "USER"]

ToUpperTok(t) == IF t \in DOMAIN LowerCased THEN LowerCased[t] ELSE t
ToUpper(s) == [i \in 1..Len(s) |-> ToUpperTok(s[i])]

\* json.Unmarshal([]byte(args), &[]string): [ok, v]; a JSON array of strings
\* is "[" string ("," string)* "]", a string is QT tokens QT
RECURSIVE JsonStrings(_)
JsonStrings(s) ==
    \* s starts at a QT; returns [ok, v] for  string ("," string)* "]"
    IF s = <<>> \/ s[1] # QT THEN [ok |-> FALSE, v |-> <<>>]
    ELSE LET rest == Tail(s)
             j == Index(rest, QT)
         IN  IF j = 0 THEN [ok |-> FALSE, v |-> <<>>]
             ELSE LET str == SubSeq(rest, 1, j - 1)
                      after == SubSeq(rest, j + 1, Len(rest))
                  IN  IF after = <<"]">> THEN [ok |-> TRUE, v |-> <<str>>]
                      ELSE IF after # <<>> /\ after[1] = ","
                      THEN LET r == JsonStrings(Tail(after))
                           IN  [ok |-> r.ok, v |-> <<str>> \o r.v]
                      ELSE [ok |-> FALSE, v |-> <<>>]

JsonUnmarshal(args) ==
    IF args = <<"[", "]">> THEN [ok |-> TRUE, v |-> <<>>]
    ELSE IF args # <<>> /\ args[1] = "[" THEN JsonStrings(Tail(args))
    ELSE [ok |-> FALSE, v |-> <<>>]

\* fmt.Sprintf("%v", []string{...}): the elements separated by spaces, in brackets
FmtV(list) == <<"[">> \o Join(list, SP) \o <<"]">>

\* buildFile.buildCmdFromJson
buildCmdFromJson(args) ==
    LET r == JsonUnmarshal(args)
    IN  IF r.ok THEN r.v ELSE << <<"/bin/sh">>, <<"-c">>, args >>

----------------------------------------------------------------------------
(* package path *)

\* path.Clean, on the segments between the slashes
RECURSIVE CleanSegs(_, _, _)
CleanSegs(segs, acc, rooted) ==
    IF segs = <<>> THEN acc
    ELSE LET x == Head(segs)
         IN  IF x = <<>> \/ x = <<".">> THEN CleanSegs(Tail(segs), acc, rooted)
             ELSE IF x = <<"..">>
             THEN IF acc # <<>> /\ acc[Len(acc)] # <<"..">>
                  THEN CleanSegs(Tail(segs), SubSeq(acc, 1, Len(acc) - 1), rooted)
                  ELSE IF rooted THEN CleanSegs(Tail(segs), acc, rooted)
                  ELSE CleanSegs(Tail(segs), Append(acc, x), rooted)
             ELSE CleanSegs(Tail(segs), Append(acc, x), rooted)

Clean(p) ==
    IF p = <<>> THEN <<".">>
    ELSE LET rooted == p[1] = SL
             segs == CleanSegs(Split(p, SL), <<>>, rooted)
         IN  IF rooted THEN <<SL>> \o Join(segs, SL)
             ELSE IF segs = <<>> THEN <<".">> ELSE Join(segs, SL)

\* path.Join(a, b)
PathJoin(a, c) ==
    IF a = <<>> /\ c = <<>> THEN <<>>
    ELSE IF a = <<>> THEN Clean(c)
    ELSE IF c = <<>> THEN Clean(a)
    ELSE Clean(a \o <<SL>> \o c)

----------------------------------------------------------------------------
(* The build context: the directory Build extracts the client's archive    *)
(* into, and what the client put there.  The archive may hold symbolic     *)
(* links to any absolute path.  The directory name comes from              *)
(* ioutil.TempDir; a directory whose name extends it may exist beside it.  *)

contextPath == <<SL, "tmp", SL, "b", "1">>
SiblingDir  == <<SL, "tmp", SL, "b", "1", "2">>

\* download directory of a remote ADD source (ioutil.TempDir(contextPath, "docker-remote"))
RemoteTmpDir == <<"docker-remote", "1">>

Under(dir, rel) == dir \o <<SL>> \o rel

Directories(remote) ==
    {<<SL>>, <<SL, "tmp">>, <<SL, "etc">>, contextPath, SiblingDir,
     Under(contextPath, <<"d">>)}
    \cup (IF remote THEN {Under(contextPath, RemoteTmpDir)} ELSE {})

RegularFiles(remote) ==
    {Under(contextPath, <<"Dockerfile">>), Under(contextPath, <<"f">>),
     Under(contextPath, <<"d", SL, "g">>), Under(SiblingDir, <<"s">>),
     Under(<<SL, "etc">>, <<"passwd">>)}
    \cup (IF remote THEN {Under(contextPath, RemoteTmpDir \o <<SL, "tmp">>)} ELSE {})

\* symbolic links inside the context
Symlinks ==
    (Under(contextPath, <<"l">>) :> Under(SiblingDir, <<"s">>))
    @@ (Under(contextPath, <<"e">>) :> <<SL, "etc">>)

Exists(p, remote) == p \in Directories(remote) \cup RegularFiles(remote)
IsDir(p, remote)  == p \in Directories(remote)

\* filepath.EvalSymlinks: resolve the links of every component; [ok, p]
RECURSIVE EvalWalk(_, _, _)
EvalWalk(done, segs, remote) ==
    IF segs = <<>> THEN [ok |-> TRUE, p |-> IF done = <<>> THEN <<SL>> ELSE done]
    ELSE LET next == done \o <<SL>> \o Head(segs)
             real == IF next \in DOMAIN Symlinks THEN Symlinks[next] ELSE next
         IN  IF ~Exists(real, remote) THEN [ok |-> FALSE, p |-> <<>>]
             ELSE EvalWalk(real, Tail(segs), remote)

EvalSymlinks(p, remote) == EvalWalk(<<>>, CleanSegs(Split(p, SL), <<>>, TRUE), remote)

\* tarsum: the checksums of the archive members, by their name in the archive
contextSums ==
    (<<"Dockerfile">> :> <<"sum", "D">>) @@ (<<"f">> :> <<"sum", "f">>)
    @@ (<<"d">> :> <<"sum", "d">>) @@ (<<"d", SL, "g">> :> <<"sum", "g">>)
    @@ (<<"l">> :> <<"sum", "l">>) @@ (<<"e">> :> <<"sum", "e">>)

----------------------------------------------------------------------------
(* buildFile.checkPathForAddition *)

ErrNoSuchFile(orig) == orig \o <<": no such file or directory">>
ErrForbidden(orig)  == <<"Forbidden path outside the build context: ">> \o orig

checkPathForAddition(orig, remote) ==
    LET origPath == PathJoin(contextPath, orig)
        r == EvalSymlinks(origPath, remote)
    IN  IF ~r.ok THEN ErrNoSuchFile(orig)
        ELSE IF ~HasPrefix(r.p, contextPath) THEN ErrForbidden(orig)
        ELSE IF ~Exists(r.p, remote) THEN ErrNoSuchFile(orig)
        ELSE NoError

----------------------------------------------------------------------------
(* The machine state a handler works on.  Handlers are operators from a    *)
(* machine state to a machine state; the field err is the error the Go     *)
(* function returns (NoError for nil).                                     *)

Machine ==
    [images |-> images, repositories |-> repositories, containers |-> containers,
     ncontainers |-> ncontainers, b |-> b, out |-> outStream,
     steps |-> <<>>, created |-> created, probes |-> 0, downloads |-> 0,
     err |-> NoError]

Fail(S, e) == [S EXCEPT !.err = e]
Ok(S)      == S.err = NoError
Printf(S, line) == [S EXCEPT !.out = Append(@, line)]

\* The fault of a collaborator that a handler meets is an input of the loop
\* turn (field fault of the oracle o).  A handler returns at its first
\* failure, so one fault per loop turn covers every case.

----------------------------------------------------------------------------
(* Collaborators: image store and container runtime *)

\* runconfig.Compare: field by field; the parent is matched through the
\* child relation, not through Config.Image
Compare(x, y) ==
    /\ x.Cmd = y.Cmd
    /\ x.Entrypoint = y.Entrypoint
    /\ x.Env = y.Env
    /\ x.WorkingDir = y.WorkingDir
    /\ x.User = y.User
    /\ x.ExposedPorts = y.ExposedPorts
    /\ x.PortSpecs = y.PortSpecs
    /\ x.Volumes = y.Volumes
    /\ x.OnBuild = y.OnBuild

\* daemon.ImageGetCached: the child of imgID whose container config equals
\* config, EmptyID when there is none
CachedChildren(S, imgID, config) ==
    {i \in DOMAIN S.images :
        /\ S.images[i].Parent = imgID
        /\ Compare(S.images[i].ContainerConfig, config)}

ImageGetCached(S, imgID, config) ==
    LET m == CachedChildren(S, imgID, config)
    IN  IF m = {} THEN EmptyID ELSE Max(m)

\* daemon.Create: a new container on config.Image, holding config
NextContainerID(S) == S.ncontainers + 1

DaemonCreate(S, config) ==
    LET id == NextContainerID(S)
    IN  [S EXCEPT !.containers = (id :> [ID |-> id, Image |-> config.Image, Config |-> config,
                                         State |-> "created", ExitCode |-> 0,
                                         Layer |-> <<>>]) @@ @,
                  !.ncontainers = id,
                  !.created = @ \cup {id}]

\* daemon.Commit: a new image whose parent is the container's image
NextImageID(S) == Cardinality(DOMAIN S.images) + 1

DaemonCommit(S, container, author, config) ==
    LET id == NextImageID(S)
    IN  [S EXCEPT !.images = (id :> [ID |-> id, Parent |-> container.Image,
                                    Config |-> config,
                                    ContainerConfig |-> container.Config,
                                    Author |-> author]) @@ @]

\* daemon.Destroy
DaemonDestroy(S, c) ==
    [S EXCEPT !.containers = [x \in (DOMAIN @) \ {c} |-> @[x]]]

----------------------------------------------------------------------------
(* buildFile.clearTmp: destroy every tracked container; a container whose  *)
(* destroy fails (c \in failing) stays tracked, the loop goes on.          *)
(* The order of a Go map range is unspecified; the output lines of one     *)
(* call are recorded as one entry.                                         *)

RECURSIVE clearTmpLoop(_, _, _)

\* a cleanup that gives up at the first destroy that fails
clearTmpLoopStops(S, todo, failing) ==
    IF todo = {} THEN S
    ELSE LET c == Min(todo)
         IN  IF c \in failing
             THEN S
             ELSE clearTmpLoop([DaemonDestroy(S, c) EXCEPT !.b.tmpContainers = @ \ {c}],
                               todo \ {c}, failing)

clearTmpLoop(S, todo, failing) ==
    IF todo = {} THEN S
    ELSE LET c == Min(todo)
         IN  IF c \in failing
             THEN clearTmpLoop(S, todo \ {c}, failing)
             ELSE clearTmpLoop([DaemonDestroy(S, c) EXCEPT !.b.tmpContainers = @ \ {c}],
                               todo \ {c}, failing)

\* a cleanup that destroys the containers and does not forget them
clearTmpKeepsTracking(S, failing) ==
    LET tracked == S.b.tmpContainers
        T == clearTmpLoop(S, tracked, failing)
    IN  IF tracked = {} THEN T
        ELSE Printf([T EXCEPT !.b.tmpContainers = tracked],
                    [ev |-> "clearTmp",
                     removed |-> tracked \ failing,
                     errors  |-> tracked \cap failing])

\* a cleanup that destroys every container of the daemon
clearTmpEveryContainer(S, failing) ==
    LET tracked == DOMAIN S.containers
        T == clearTmpLoop(S, tracked, failing)
    IN  IF tracked = {} THEN T
        ELSE Printf(T, [ev |-> "clearTmp",
                        removed |-> tracked \ failing,
                        errors  |-> tracked \cap failing])

clearTmp(S, failing) ==
    LET tracked == S.b.tmpContainers
        T == clearTmpLoop(S, tracked, failing)
    IN  IF tracked = {} THEN T
        ELSE Printf(T, [ev |-> "clearTmp",
                        removed |-> tracked \ failing,
                        errors  |-> tracked \cap failing])

----------------------------------------------------------------------------
(* buildFile.probeCache *)

\* lines 262-271: the query of the image store and what follows from its
\* answer; probes counts the queries of one loop turn
cacheLookup(S0, fault) ==
    LET found(S, cache) ==
            IF cache # EmptyID
            THEN [hit |-> TRUE,
                  S |-> [Printf(S, [ev |-> "Using cache"]) EXCEPT !.b.image = cache]]
            ELSE [hit |-> FALSE, S |-> S]
        asked(S) ==
            IF fault = "cache"
            THEN [hit |-> FALSE, S |-> Fail(S, <<"ImageGetCached failed">>)]
            ELSE found(S, ImageGetCached(S, S.b.image, S.b.config))
    IN  asked([S0 EXCEPT !.probes = @ + 1])

\* a probe that does not look at the flag
probeCacheWhateverTheFlag(S, fault) == cacheLookup(S, fault)

probeCache(S, fault) ==
    IF S.b.utilizeCache THEN cacheLookup(S, fault) ELSE [hit |-> FALSE, S |-> S]

----------------------------------------------------------------------------
(* buildFile.commit *)

NopCmd(comment) == << <<"/bin/sh">>, <<"-c">>, <<"#(nop)", SP>> \o comment >>

ErrNoFromCommit == <<"Please provide a source image with from prior to commit">>
ErrNoFromRun    == <<"Please provide a source image with from prior to run">>

\* a commit that stores the config of the build as it stands, synthetic Cmd included
commitContainerAsIs(S, id, autoCmd, fault) ==
    IF id \notin DOMAIN S.containers
    THEN Fail(S, <<"An error occured while creating the container">>)
    ELSE IF fault = "commit"
         THEN Fail(S, <<"Commit failed">>)
         ELSE LET T == DaemonCommit(S, S.containers[id], S.b.maintainer, S.b.config)
                  image == NextImageID(S)
              IN  [T EXCEPT !.b.tmpImages = @ \cup {image},
                            !.b.image = image]

\* lines 844-860: commit container id with the config of the build, its Cmd
\* replaced by autoCmd
commitContainer(S, id, autoCmd, fault) ==
    IF id \notin DOMAIN S.containers
    THEN Fail(S, <<"An error occured while creating the container">>)
    ELSE LET autoConfig == [S.b.config EXCEPT !.Cmd = autoCmd]
         IN  IF fault = "commit"
             THEN Fail(S, <<"Commit failed">>)
             ELSE LET T == DaemonCommit(S, S.containers[id], S.b.maintainer, autoConfig)
                      image == NextImageID(S)
                  IN  [T EXCEPT !.b.tmpImages = @ \cup {image},
                                !.b.image = image]

commit(S0, id, autoCmd, comment, fault) ==
    IF S0.b.image = EmptyID
    THEN Fail(S0, ErrNoFromCommit)
    ELSE
    LET S == [S0 EXCEPT !.b.config.Image = S0.b.image]
        cmd == S0.b.config.Cmd
        \* line 818: defer func(cmd []string) { b.config.Cmd = cmd }(cmd)
        restore(T) == [T EXCEPT !.b.config.Cmd = cmd]
        \* lines 839-842
        mounted(D, cid) ==
            IF fault = "mount"
            THEN Fail(D, <<"Mount failed">>)
            ELSE commitContainer(D, cid, autoCmd, fault)
        \* lines 828-837
        created_(P, cid) ==
            IF fault = "create" \/ P.b.config.Image \notin DOMAIN P.images
            THEN Fail(P, <<"Create failed">>)
            ELSE mounted(Printf([DaemonCreate(P, P.b.config)
                                    EXCEPT !.b.tmpContainers = @ \cup {cid}],
                                [ev |-> "Running in", id |-> cid]), cid)
        \* lines 820-826
        probed(P) ==
            IF ~Ok(P.S) \/ P.hit THEN P.S ELSE created_(P.S, NextContainerID(P.S))
    IN  IF id = EmptyID
        THEN restore(probed(probeCache([S EXCEPT !.b.config.Cmd = NopCmd(comment)], fault)))
        ELSE commitContainer(S, id, autoCmd, fault)

----------------------------------------------------------------------------
(* Metadata-only handlers *)

ErrChainedOnbuild    == <<"Chaining ONBUILD via ONBUILD ONBUILD isn't allowed">>
ErrTriggerNotAllowed(instruction) == instruction \o <<" isn't allowed as an ONBUILD trigger">>

\* an ONBUILD handler that commits without recording the trigger
CmdOnbuildForgets(S, trigger, o) ==
    LET splitTrigger == Split(trigger, SP)
        triggerInstruction == ToUpper(Trim(splitTrigger[1], {SP}))
    IN  IF triggerInstruction = <<"ONBUILD">> THEN Fail(S, ErrChainedOnbuild)
        ELSE IF triggerInstruction \in {<<"MAINTAINER">>, <<"FROM">>}
        THEN Fail(S, ErrTriggerNotAllowed(triggerInstruction))
        ELSE commit(S, EmptyID, S.b.config.Cmd, <<"ONBUILD", SP>> \o trigger, o.fault)

\* an ONBUILD handler that records whatever trigger it is given
CmdOnbuildUnchecked(S, trigger, o) ==
    LET T == [S EXCEPT !.b.config.OnBuild = Append(@, trigger)]
    IN  commit(T, EmptyID, T.b.config.Cmd, <<"ONBUILD", SP>> \o trigger, o.fault)

CmdOnbuild(S, trigger, o) ==
    LET splitTrigger == Split(trigger, SP)
        triggerInstruction == ToUpper(Trim(splitTrigger[1], {SP}))
    IN  IF triggerInstruction = <<"ONBUILD">> THEN Fail(S, ErrChainedOnbuild)
        ELSE IF triggerInstruction \in {<<"MAINTAINER">>, <<"FROM">>}
        THEN Fail(S, ErrTriggerNotAllowed(triggerInstruction))
        ELSE LET T == [S EXCEPT !.b.config.OnBuild = Append(@, trigger)]
             IN  commit(T, EmptyID, T.b.config.Cmd, <<"ONBUILD", SP>> \o trigger, o.fault)

CmdMaintainer(S, name, o) ==
    LET T == [S EXCEPT !.b.maintainer = name]
    IN  commit(T, EmptyID, T.b.config.Cmd, <<"MAINTAINER", SP>> \o name, o.fault)

CmdUser(S, args, o) ==
    LET T == [S EXCEPT !.b.config.User = args]
    IN  commit(T, EmptyID, T.b.config.Cmd, <<"USER", SP>> \o args, o.fault)

CmdInsert(S, args, o) ==
    Fail(S, <<"INSERT has been deprecated. Please use ADD instead">>)

CmdCmd(S, args, o) ==
    LET cmd == buildCmdFromJson(args)
        T == [S EXCEPT !.b.config.Cmd = cmd]
        committed(R) == IF ~Ok(R) THEN R ELSE [R EXCEPT !.b.cmdSet = TRUE]
    IN  committed(commit(T, EmptyID, T.b.config.Cmd, <<"CMD", SP>> \o FmtV(cmd), o.fault))

\* an ENTRYPOINT handler that never cleans the Cmd up
CmdEntrypointKeepsCmd(S, args, o) ==
    LET entrypoint == buildCmdFromJson(args)
        T == [S EXCEPT !.b.config.Entrypoint = entrypoint]
    IN  commit(T, EmptyID, T.b.config.Cmd, <<"ENTRYPOINT", SP>> \o FmtV(entrypoint), o.fault)

CmdEntrypoint(S, args, o) ==
    LET entrypoint == buildCmdFromJson(args)
        T == [S EXCEPT !.b.config.Entrypoint = entrypoint,
                       !.b.config.Cmd = IF ~S.b.cmdSet THEN nil ELSE @]
    IN  commit(T, EmptyID, T.b.config.Cmd, <<"ENTRYPOINT", SP>> \o FmtV(entrypoint), o.fault)

\* filepath.Join for WORKDIR
CmdWorkdir(S, workdir, o) ==
    LET T == IF workdir[1] = SL
             THEN [S EXCEPT !.b.config.WorkingDir = workdir]
             ELSE [S EXCEPT !.b.config.WorkingDir =
                              PathJoin(IF @ = <<>> THEN <<SL>> ELSE @, workdir)]
    IN  commit(T, EmptyID, T.b.config.Cmd, <<"WORKDIR", SP>> \o workdir, o.fault)

CmdVolume(S, args, o) ==
    IF args = <<>> THEN Fail(S, <<"Volume cannot be empty">>)
    ELSE LET r == JsonUnmarshal(args)
             volume == IF r.ok THEN r.v ELSE <<args>>
             T == [S EXCEPT !.b.config.Volumes = @ \cup {volume[i] : i \in 1..Len(volume)}]
         IN  commit(T, EmptyID, T.b.config.Cmd, <<"VOLUME", SP>> \o args, o.fault)

\* nat.ParsePortSpecs for container ports: "port" or "port/proto", tcp by default
ParsePort(spec) ==
    LET parts == Split(spec, SL)
    IN  IF Len(parts) = 1 /\ Len(parts[1]) = 1 THEN [ok |-> TRUE, port |-> parts[1] \o <<SL, "tcp">>]
        ELSE IF Len(parts) = 2 /\ Len(parts[1]) = 1 /\ parts[2] \in {<<"tcp">>, <<"udp">>}
        THEN [ok |-> TRUE, port |-> spec]
        ELSE [ok |-> FALSE, port |-> <<>>]

\* a Go map printed with %v: the keys in the order of the map iteration,
\* which the language leaves unspecified; o.mapOrder picks it
RECURSIVE SortedSeq(_)
SortedSeq(set) ==
    IF set = {} THEN <<>>
    ELSE LET x == CHOOSE y \in set : TRUE
         IN  <<x>> \o SortedSeq(set \ {x})

Reverse(q) == [i \in 1..Len(q) |-> q[Len(q) + 1 - i]]

FmtPortSet(ports, mapOrder) ==
    LET q == IF mapOrder = "down" THEN Reverse(SortedSeq(ports)) ELSE SortedSeq(ports)
    IN  <<"map[">> \o Join([i \in 1..Len(q) |-> q[i] \o <<":{}">>], SP) \o <<"]">>

CmdExpose(S, args, o) ==
    LET portsTab == Split(args, SP) \o S.b.config.PortSpecs
        parsed == [i \in 1..Len(portsTab) |-> ParsePort(portsTab[i])]
    IN  IF \E i \in 1..Len(parsed) : ~parsed[i].ok
        THEN Fail(S, <<"Invalid containerPort">>)
        ELSE LET ports == {parsed[i].port : i \in 1..Len(parsed)}
                 T == [S EXCEPT !.b.config.ExposedPorts = @ \cup ports,
                                !.b.config.PortSpecs = nil]
             IN  commit(T, EmptyID, T.b.config.Cmd,
                        <<"EXPOSE", SP>> \o FmtPortSet(ports, o.mapOrder), o.fault)

----------------------------------------------------------------------------
(* Env interpolation: buildFile.FindEnvKey, buildFile.ReplaceEnvMatches *)

\* the characters that are not [[:alnum:]_]
NonWord == {SP, SL, QT, "=", "$", "{", "}", "\\", "[", "]", ",", ".", "..", ":",
            "http://", "\t", "\r", "#"}
IsWord(t) == t \notin NonWord

FindEnvKey(S, key) ==
    LET env == S.b.config.Env
        found == {k \in 1..Len(env) : SplitN2(env[k], "=")[1] = key}
    IN  IF found = {} THEN -1 ELSE Min(found) - 1      \* a Go index, from 0

\* end of the longest match of  \$({?)([[:alnum:]_]+)(}?)  at position q, 0 if none
RECURSIVE WordRunEnd(_, _)
WordRunEnd(s, i) == IF i <= Len(s) /\ IsWord(s[i]) THEN WordRunEnd(s, i + 1) ELSE i - 1

DollarMatchEnd(s, q) ==
    IF q > Len(s) \/ s[q] # "$" THEN 0
    ELSE LET n == IF q + 1 <= Len(s) /\ s[q + 1] = "{" THEN q + 2 ELSE q + 1
             e == WordRunEnd(s, n)
         IN  IF e < n THEN 0
             ELSE IF e + 1 <= Len(s) /\ s[e + 1] = "}" THEN e + 1 ELSE e

RECURSIVE BackslashRunEnd(_, _)
BackslashRunEnd(s, i) ==
    IF i <= Len(s) /\ s[i] = "\\" THEN BackslashRunEnd(s, i + 1) ELSE i - 1

\* the match of the whole expression that starts at p: [from, to], to = 0 if none
MatchAt(s, p) ==
    LET r == BackslashRunEnd(s, p)
    IN  IF s[p] = "\\" /\ r >= p + 1 /\ DollarMatchEnd(s, r + 1) > 0
        THEN DollarMatchEnd(s, r + 1)
        ELSE IF s[p] # "\\" /\ DollarMatchEnd(s, p + 1) > 0
        THEN DollarMatchEnd(s, p + 1)
        ELSE IF (p = 1 \/ IsWord(s[p - 1])) /\ DollarMatchEnd(s, p) > 0
        THEN DollarMatchEnd(s, p)
        ELSE 0

\* regexp.FindAllString(value, -1), each match cut at its first "$"
RECURSIVE FindAllFrom(_, _)
FindAllFrom(s, p) ==
    IF p > Len(s) THEN <<>>
    ELSE LET e == MatchAt(s, p)
         IN  IF e = 0 THEN FindAllFrom(s, p + 1)
             ELSE LET m == SubSeq(s, p, e)
                  IN  <<SubSeq(m, Index(m, "$"), Len(m))>> \o FindAllFrom(s, e + 1)

\* strings.Replace(s, old, new, -1)
RECURSIVE ReplaceAll(_, _, _)
ReplaceAll(s, old, new) ==
    IF Len(s) < Len(old) \/ old = <<>> THEN s
    ELSE IF HasPrefix(s, old) THEN new \o ReplaceAll(SubSeq(s, Len(old) + 1, Len(s)), old, new)
    ELSE <<Head(s)>> \o ReplaceAll(Tail(s), old, new)

RECURSIVE ReplaceMatches(_, _, _)
ReplaceMatches(env, value, matches) ==
    IF matches = <<>> THEN value
    ELSE LET match == Head(matches)
             matchKey == Trim(match, {"$", "{", "}"})
             hits == {k \in 1..Len(env) : SplitN2(env[k], "=")[1] = matchKey}
         IN  IF hits = {} THEN ReplaceMatches(env, value, Tail(matches))
             ELSE ReplaceMatches(env,
                                 ReplaceAll(value, match, SplitN2(env[Min(hits)], "=")[2]),
                                 Tail(matches))

ReplaceEnvMatches(S, value) ==
    ReplaceMatches(S.b.config.Env, value, FindAllFrom(value, 1))

CmdEnv(S, args, o) ==
    LET tmp == SplitN2(args, SP)
    IN  IF Len(tmp) # 2 THEN Fail(S, <<"Invalid ENV format">>)
        ELSE LET key == Trim(tmp[1], {SP, "\t"})
                 value == Trim(tmp[2], {SP, "\t"})
                 envKey == FindEnvKey(S, key)
                 replacedVar == key \o <<"=">> \o ReplaceEnvMatches(S, value)
                 T == IF envKey >= 0
                      THEN [S EXCEPT !.b.config.Env[envKey + 1] = replacedVar]
                      ELSE [S EXCEPT !.b.config.Env = Append(@, replacedVar)]
             IN  commit(T, EmptyID, T.b.config.Cmd, <<"ENV", SP>> \o replacedVar, o.fault)

----------------------------------------------------------------------------
(* RUN: buildFile.create, buildFile.run, buildFile.CmdRun *)

\* [S, id]: id = EmptyID when create failed
create(S0, fault) ==
    IF S0.b.image = EmptyID THEN [S |-> Fail(S0, ErrNoFromRun), id |-> EmptyID]
    ELSE LET S == [S0 EXCEPT !.b.config.Image = S0.b.image]
         IN  IF fault = "create" \/ S.b.config.Image \notin DOMAIN S.images
             THEN [S |-> Fail(S, <<"Create failed">>), id |-> EmptyID]
             ELSE LET c == NextContainerID(S)
                      C == DaemonCreate(S, S.b.config)
                  IN  [S |-> Printf([C EXCEPT !.b.tmpContainers = @ \cup {c}],
                                    [ev |-> "Running in", id |-> c]),
                       id |-> c]

ErrNonZero(cmd, ret) ==
    <<"The command ">> \o FmtV(cmd) \o <<" returned a non-zero code: ", ToString(ret)>>

\* a run that takes any exit code for success
runIgnoresExit(S, c, o) ==
    IF o.fault = "start" THEN Fail(S, <<"Start failed">>)
    ELSE [S EXCEPT !.containers[c].State = "exited",
                   !.containers[c].ExitCode = IF o.fault = "exit" THEN o.code ELSE 0]

run(S, c, o) ==
    IF o.fault = "start" THEN Fail(S, <<"Start failed">>)
    ELSE LET ret == IF o.fault = "exit" THEN o.code ELSE 0
             T == [S EXCEPT !.containers[c].State = "exited",
                            !.containers[c].ExitCode = ret]
         IN  IF ret # 0 THEN Fail(T, ErrNonZero(T.b.config.Cmd, ret)) ELSE T

\* runconfig.Parse of (image, command...) yields a config that carries the
\* command only, so runconfig.Merge adds nothing to b.config
CmdRun(S0, args, o) ==
    IF S0.b.image = EmptyID THEN Fail(S0, ErrNoFromRun)
    ELSE
    LET cmd == S0.b.config.Cmd
        restore(T) == [T EXCEPT !.b.config.Cmd = cmd]
        \* lines 311-317
        ran(R, c) == IF ~Ok(R) THEN R ELSE commit(R, c, cmd, <<"run">>, o.fault)
        \* lines 302-309
        created_(C) == IF ~Ok(C.S) THEN C.S ELSE ran(run(C.S, C.id, o), C.id)
        \* lines 294-300
        probed(P) == IF ~Ok(P.S) \/ P.hit THEN P.S ELSE created_(create(P.S, o.fault))
    IN  restore(probed(probeCache([S0 EXCEPT !.b.config.Cmd = buildCmdFromJson(args)],
                                  o.fault)))

----------------------------------------------------------------------------
(* COPY and ADD: buildFile.addContext, buildFile.runContextCommand *)

IsURL(str) == str # <<>> /\ str[1] \in {"http://", "https://"}

\* what the remote source holds decides its checksum
RemoteSum(url) == <<"tarsum", SP>> \o url

\* the regular files that are tar archives: f of the context, and the file
\* a remote source is downloaded to
TarFiles ==
    {Under(contextPath, <<"f">>), Under(contextPath, RemoteTmpDir \o <<SL, "tmp">>)}

\* os.Stat follows symbolic links
StatIsDir(p, remote) ==
    LET r == EvalSymlinks(p, remote) IN r.ok /\ IsDir(r.p, remote)

StatExists(p, remote) == EvalSymlinks(p, remote).ok

\* the effect on the container's filesystem is recorded as one entry of Layer;
\* untarTried tells whether archive.UntarPath was called (lines 543-555: when
\* it fails the file is copied)
addContext(S, c, orig, dest, decompress, remote, fault) ==
    LET origPath == PathJoin(contextPath, orig)
        add(how, tried) ==
            [S EXCEPT !.containers[c].Layer =
                 Append(@, [how |-> how, orig |-> orig, dest |-> dest,
                            untarTried |-> tried])]
    IN  IF fault = "addContext" THEN Fail(S, <<"addContext failed">>)
        ELSE IF ~StatExists(origPath, remote) THEN Fail(S, ErrNoSuchFile(orig))
        ELSE IF StatIsDir(origPath, remote) THEN add("copyAsDirectory", FALSE)
        ELSE IF decompress /\ EvalSymlinks(origPath, remote).p \in TarFiles
        THEN add("UntarPath", TRUE)
        ELSE add("CopyWithTar", decompress)

\* the checksums of the context in the order of sort.Strings
SortedSums == << <<"sum", "D">>, <<"sum", "d">>, <<"sum", "e">>, <<"sum", "f">>,
                 <<"sum", "g">>, <<"sum", "l">> >>

\* lines 691-702: "dir:" and the sha256 of the sorted, comma-joined checksums
\* of the members under origPath
ContextSubfiles(origPath) ==
    {contextSums[file] : file \in
        {f \in DOMAIN contextSums :
            HasPrefix(PathJoin(contextPath, f), PathJoin(contextPath, origPath))}}

DirHash(origPath) ==
    <<"dir:", "sha256(">>
    \o Join(SelectSeq(SortedSums, LAMBDA x : x \in ContextSubfiles(origPath)), ",")
    \o <<")">>

ContextCmd(cmdName, what, dest) ==
    << <<"/bin/sh">>, <<"-c">>, <<"#(nop)", SP, cmdName, SP>> \o what \o <<SP, "in", SP>> \o dest >>

\* filename of lines 656-672: the last segment of the URL's path
UrlFilename(url) ==
    LET path == SubSeq(url, 3, Len(url))          \* after the scheme and the host
        parts == Split(IF HasSuffix(path, <<SL>>) THEN SubSeq(path, 1, Len(path) - 1) ELSE path, SL)
    IN  parts[Len(parts)]

\* lines 593-746: runContextCommand once orig and dest are known
contextCommand(S0, orig, dest, allowRemote, allowDecompression, cmdName, o) ==
    LET cmd  == S0.b.config.Cmd
        restore(T) == [T EXCEPT !.b.config.Cmd = cmd]
        \* downloads counts the calls of utils.Download (line 610)
        S1 == [S0 EXCEPT !.b.config.Cmd = ContextCmd(cmdName, orig, dest),
                         !.b.config.Image = S0.b.image,
                         !.downloads = IF IsURL(orig) /\ allowRemote THEN @ + 1 ELSE @]
        isRemote   == IsURL(orig)
        origPath0  == IF isRemote THEN RemoteTmpDir \o <<SL, "tmp">> ELSE orig
        remoteHash == IF isRemote THEN RemoteSum(orig) ELSE <<>>
        destPath   == IF isRemote /\ HasSuffix(dest, <<SL>>) THEN dest \o UrlFilename(orig) ELSE dest
        decompress == ~(~allowDecompression \/ isRemote)
        \* lines 738-745
        added(A, c) ==
            IF ~Ok(A) THEN A
            ELSE commit(A, c, cmd, <<cmdName, SP>> \o orig \o <<SP, "in", SP>> \o dest, o.fault)
        \* lines 730-737
        mounted(C, c, origPath) ==
            IF o.fault = "mount" THEN Fail(C, <<"Mount failed">>)
            ELSE added(addContext(C, c, origPath, destPath, decompress, isRemote, o.fault), c)
        \* lines 723-728
        created_(P, c, origPath) ==
            IF o.fault = "create" \/ P.b.config.Image \notin DOMAIN P.images
            THEN Fail(P, <<"Create failed">>)
            ELSE mounted([DaemonCreate(P, P.b.config) EXCEPT !.b.tmpContainers = @ \cup {c}],
                         c, origPath)
        \* lines 714-721
        probed(P, hash, origPath) ==
            IF ~Ok(P.S) THEN P.S
            ELSE IF S1.b.utilizeCache /\ P.hit /\ hash # <<>> THEN P.S
            ELSE created_(P.S, NextContainerID(P.S), origPath)
        \* lines 712-713
        hashed(hash, origPath) ==
            probed(IF S1.b.utilizeCache
                   THEN probeCache([S1 EXCEPT !.b.config.Cmd = ContextCmd(cmdName, hash, dest)],
                                   o.fault)
                   ELSE [hit |-> FALSE, S |-> S1],
                   hash, origPath)
        \* lines 680-711; key is the name under which lines 704-708 look up the
        \* checksum of a file
        keyed(isDir, key) ==
            hashed(IF remoteHash # <<>> THEN remoteHash
                   ELSE IF isDir THEN DirHash(origPath0)
                   ELSE IF key \in DOMAIN contextSums THEN <<"file:">> \o contextSums[key]
                   ELSE <<>>,
                   IF S1.b.utilizeCache /\ remoteHash = <<>> /\ ~isDir THEN key ELSE origPath0)
        \* lines 675-677
        checked(checkErr) ==
            IF checkErr # NoError THEN Fail(S1, checkErr)
            ELSE keyed(StatIsDir(PathJoin(contextPath, origPath0), isRemote),
                       TrimPrefix(IF origPath0[1] = SL /\ Len(origPath0) > 1
                                  THEN Tail(origPath0) ELSE origPath0,
                                  <<".", SL>>))
    IN  restore(
        IF isRemote /\ ~allowRemote
        THEN Fail(S1, <<"Source can't be an URL for ", cmdName>>)
        ELSE IF isRemote /\ o.fault = "download" THEN Fail(S1, <<"Download failed">>)
        ELSE IF isRemote /\ HasSuffix(dest, <<SL>>) /\ UrlFilename(orig) = <<>>
        THEN Fail(S1, <<"cannot determine filename from url">>)
        ELSE checked(checkPathForAddition(origPath0, isRemote)))

\* lines 578-591
runContextCommand(S0, args, allowRemote, allowDecompression, cmdName, o) ==
    LET tmp == SplitN2(args, SP)
    IN  IF Len(tmp) # 2 THEN Fail(S0, <<"Invalid ", cmdName, " format">>)
        ELSE contextCommand(S0, ReplaceEnvMatches(S0, Trim(tmp[1], {SP, "\t"})),
                            ReplaceEnvMatches(S0, Trim(tmp[2], {SP, "\t"})),
                            allowRemote, allowDecompression, cmdName, o)

\* a COPY that is allowed what ADD is allowed
CmdCopyLikeAdd(S, args, o) == runContextCommand(S, args, TRUE, TRUE, "COPY", o)

CmdCopy(S, args, o) == runContextCommand(S, args, FALSE, FALSE, "COPY", o)
CmdAdd(S, args, o)  == runContextCommand(S, args, TRUE, TRUE, "ADD", o)

----------------------------------------------------------------------------
(* FROM and the dispatcher: buildFile.CmdFrom, buildFile.BuildStep *)

\* images the registry serves to the pull job, by name
Registry ==
    (<<"onb">> :> [EmptyConfig EXCEPT !.Env = << <<"PATH", "=", "/bin">> >>,
                                     !.OnBuild = << <<"USER", SP, "t">> >>])
    @@ (<<"onb2">> :> [EmptyConfig EXCEPT !.OnBuild = << <<"USER", SP, "t">>,
                                                        <<"ENV", SP, "K", SP, "v">> >>])
    @@ (<<"onbq">> :> [EmptyConfig EXCEPT !.OnBuild = << <<"FOO", SP, "bar">> >>])
    @@ (<<"onbf">> :> [EmptyConfig EXCEPT !.OnBuild = << <<"USER", SP, "t">>,
                                                        <<"from", SP, "base">> >>])
    @@ (<<"onbv">> :> [EmptyConfig EXCEPT !.OnBuild = << <<"VOLUME", SP>> >>])

\* TagStore.LookupImage and, for a name the store does not know, the pull job
\* followed by a second LookupImage: [S, id], id = EmptyID on failure
LookupOrPull(S, name, fault) ==
    IF name \in DOMAIN S.repositories THEN [S |-> S, id |-> S.repositories[name]]
    ELSE IF name \in DOMAIN Registry /\ fault # "pull"
    THEN LET id == NextImageID(S)
         IN  [S |-> [S EXCEPT !.images = (id :> [ID |-> id, Parent |-> EmptyID,
                                                Config |-> Registry[name],
                                                ContainerConfig |-> EmptyConfig,
                                                Author |-> <<>>]) @@ @,
                              !.repositories = (name :> id) @@ @],
              id |-> id]
    ELSE [S |-> Fail(S, <<"pull failed: ">> \o name), id |-> EmptyID]

ErrSourceChained(step) == <<"Source image contains forbidden chained ONBUILD ONBUILD trigger: ">> \o step
ErrSourceTrigger(instr, step) == <<"Source image contains forbidden ">> \o instr \o <<" trigger: ">> \o step

RECURSIVE BuildStep(_, _, _, _)

RECURSIVE RunTriggers(_, _, _, _)
RunTriggers(S, onBuildTriggers, n, o) ==
    IF n > Len(onBuildTriggers) THEN S
    ELSE LET step == onBuildTriggers[n]
             splitStep == Split(step, SP)
             stepInstruction == ToUpper(Trim(splitStep[1], {SP}))
             stepped(R) == IF ~Ok(R) THEN R ELSE RunTriggers(R, onBuildTriggers, n + 1, o)
         IN  IF stepInstruction = <<"ONBUILD">> THEN Fail(S, ErrSourceChained(step))
             ELSE IF stepInstruction \in {<<"MAINTAINER">>, <<"FROM">>}
             THEN Fail(S, ErrSourceTrigger(stepInstruction, step))
             ELSE stepped(BuildStep(S, <<"onbuild-", ToString(n - 1)>>, step, o))

\* line 205, b.config = image.Config, copies a pointer: b.config is the Config
\* object of the image that LookupImage returned.  A store that loads the image
\* from disk at every lookup returns an object of its own each time; a store
\* that keeps its images in memory returns the object it holds, and what the
\* build writes through b.config is written to it.  configOf names the image
\* whose stored config b.config is, EmptyID when it is no stored one.
LookedUpConfig(image) == IF store = "memory" THEN image.ID ELSE EmptyID

\* a FROM that leaves the triggers of the source image on the live config
CmdFromInherits(S, name, o) ==
    LET trigger(T) == RunTriggers(T, T.b.config.OnBuild, 1, o)
        announce(T) ==
            IF Len(T.b.config.OnBuild) # 0
            THEN Printf(T, [ev |-> "# Executing build triggers",
                            n |-> Len(T.b.config.OnBuild)])
            ELSE T
        seedPath(T) ==
            IF Len(T.b.config.Env) = 0
            THEN [T EXCEPT !.b.config.Env = Append(@, <<"PATH", "=">> \o DefaultPathEnv)]
            ELSE T
        adopt(T, image) ==
            [T EXCEPT !.b.image = image.ID, !.b.config = image.Config,
                      !.b.configOf = LookedUpConfig(image)]
        looked(L) ==
            IF ~Ok(L.S) THEN L.S
            ELSE trigger(announce(seedPath(adopt(L.S, L.S.images[L.id]))))
    IN  looked(LookupOrPull(S, name, o.fault))

CmdFrom(S, name, o) ==
    LET \* lines 215-231
        trigger(T) ==
            RunTriggers([T EXCEPT !.b.config.OnBuild = <<>>], T.b.config.OnBuild, 1, o)
        \* lines 210-213
        announce(T) ==
            IF Len(T.b.config.OnBuild) # 0
            THEN Printf(T, [ev |-> "# Executing build triggers",
                            n |-> Len(T.b.config.OnBuild)])
            ELSE T
        \* lines 207-209
        seedPath(T) ==
            IF Len(T.b.config.Env) = 0
            THEN [T EXCEPT !.b.config.Env = Append(@, <<"PATH", "=">> \o DefaultPathEnv)]
            ELSE T
        \* lines 202-206
        adopt(T, image) ==
            [T EXCEPT !.b.image = image.ID, !.b.config = image.Config,
                      !.b.configOf = LookedUpConfig(image)]
        \* lines 172-201
        looked(L) ==
            IF ~Ok(L.S) THEN L.S
            ELSE trigger(announce(seedPath(adopt(L.S, L.S.images[L.id]))))
    IN  looked(LookupOrPull(S, name, o.fault))

\* reflect.TypeOf(b).MethodByName("Cmd" + ...): the handler of an instruction
MethodExists(instruction) ==
    Len(instruction) = 1 /\ ToUpperTok(instruction[1]) \in Keywords

Dispatch(S, instruction, arguments, o) ==
    LET m == ToUpperTok(instruction[1])
    IN  CASE m = "FROM"       -> CmdFrom(S, arguments, o)
          [] m = "ONBUILD"    -> CmdOnbuild(S, arguments, o)
          [] m = "MAINTAINER" -> CmdMaintainer(S, arguments, o)
          [] m = "RUN"        -> CmdRun(S, arguments, o)
          [] m = "ENV"        -> CmdEnv(S, arguments, o)
          [] m = "CMD"        -> CmdCmd(S, arguments, o)
          [] m = "ENTRYPOINT" -> CmdEntrypoint(S, arguments, o)
          [] m = "EXPOSE"     -> CmdExpose(S, arguments, o)
          [] m = "USER"       -> CmdUser(S, arguments, o)
          [] m = "INSERT"     -> CmdInsert(S, arguments, o)
          [] m = "COPY"       -> CmdCopy(S, arguments, o)
          [] m = "WORKDIR"    -> CmdWorkdir(S, arguments, o)
          [] m = "VOLUME"     -> CmdVolume(S, arguments, o)
          [] m = "ADD"        -> CmdAdd(S, arguments, o)

\* history: what one BuildStep call did
StepRecord(S, R, name, expression, dispatched) ==
    [name |-> name, expression |-> expression, dispatched |-> dispatched,
     err |-> R.err,
     imageBefore |-> S.b.image, imageAfter |-> R.b.image,
     configAfter |-> R.b.config,
     before |-> S.b, after |-> R.b,
     probes |-> R.probes - S.probes,
     downloads |-> R.downloads - S.downloads,
     layersAfter |-> [c \in DOMAIN R.containers |-> R.containers[c].Layer],
     createdBefore |-> S.created, createdAfter |-> R.created,
     exitsAfter |-> [c \in {d \in DOMAIN R.containers : R.containers[d].State = "exited"}
                        |-> R.containers[c].ExitCode],
     tracked |-> R.b.tmpContainers,
     imagesBefore |-> DOMAIN S.images, imagesAfter |-> DOMAIN R.images]

\* the image store after the writes of one BuildStep call through b.config
Written(R) ==
    IF R.b.configOf # EmptyID
    THEN [R EXCEPT !.images[R.b.configOf].Config = R.b.config]
    ELSE R

Finish(S, R0, name, expression, dispatched) ==
    LET recorded(R) ==
            [R EXCEPT !.steps = Append(@, StepRecord(S, R, name, expression, dispatched))]
    IN  recorded(Written(R0))

\* a dispatcher that fails on an instruction it does not know
BuildStepStrict(S, name, expression, o) ==
    LET S1 == Printf(S, [ev |-> "Step", name |-> name, expression |-> expression])
        tmp == SplitN2(expression, SP)
        dispatched(R) ==
            IF ~Ok(R) THEN R ELSE Printf(R, [ev |-> "--->", id |-> R.b.image])
        method(instruction, arguments) ==
            IF ~MethodExists(instruction)
            THEN Finish(S, Fail(S1, <<"Unknown instruction">>), name, expression, FALSE)
            ELSE Finish(S, dispatched(Dispatch(S1, instruction, arguments, o)),
                        name, expression, TRUE)
    IN  IF Len(tmp) # 2
        THEN Finish(S, Fail(S1, <<"Invalid Dockerfile format">>), name, expression, FALSE)
        ELSE method(Trim(tmp[1], {SP}), Trim(tmp[2], {SP}))

BuildStep(S, name, expression, o) ==
    LET S1 == Printf(S, [ev |-> "Step", name |-> name, expression |-> expression])
        tmp == SplitN2(expression, SP)
        \* lines 936-942
        dispatched(R) ==
            IF ~Ok(R) THEN R ELSE Printf(R, [ev |-> "--->", id |-> R.b.image])
        \* lines 930-934
        method(instruction, arguments) ==
            IF ~MethodExists(instruction)
            THEN Finish(S, Printf(S1, [ev |-> "# Skipping unknown instruction",
                                       instruction |-> ToUpper(instruction)]),
                        name, expression, FALSE)
            ELSE Finish(S, dispatched(Dispatch(S1, instruction, arguments, o)),
                        name, expression, TRUE)
    IN  IF Len(tmp) # 2
        THEN Finish(S, Fail(S1, <<"Invalid Dockerfile format">>), name, expression, FALSE)
        ELSE method(Trim(tmp[1], {SP}), Trim(tmp[2], {SP}))

----------------------------------------------------------------------------
(* The Dockerfiles of the client *)

Line(kw, args) == <<kw, SP>> \o args

\* The client writes a Dockerfile with the lines of one vocabulary
MetadataLines ==
    { Line("FROM", <<"base">>),
      Line("MAINTAINER", <<"me">>),
      Line("CMD", <<"[", QT, "a", QT, ",", QT, "b", QT, "]">>),
      Line("CMD", <<"[", QT, "a", SP, "b", QT, "]">>),
      Line("ENTRYPOINT", <<"e">>),
      Line("ENV", <<"K", SP, "v">>),
      Line("USER", <<"u">>),
      Line("ONBUILD", <<"USER", SP, "t">>) }

ContextLines ==
    { Line("FROM", <<"base">>),
      Line("RUN", <<"true">>),
      Line("COPY", <<"f", SP, SL, "x">>),
      Line("COPY", <<"d", SL, "..", SL, "f", SP, SL, "x">>),
      Line("COPY", <<"l", SP, SL, "x">>),
      Line("COPY", <<"e", SP, SL, "x">>),
      Line("COPY", <<"d", SP, SL, "x">>),
      Line("ADD", <<"http://", "h", SL, "r", SP, SL, "x">>) }

OtherLines ==
    { Line("FROM", <<"onb">>), Line("FROM", <<"nowhere">>),
      Line("RUN", <<"true">>),
      Line("EXPOSE", <<"80", SP, "53", SL, "udp">>),
      Line("WORKDIR", <<"w">>),
      Line("VOLUME", <<SL, "v">>),
      Line("ONBUILD", <<"from", SP, "base">>),
      Line("INSERT", <<"f", SP, SL, "x">>),
      Line("FOO", <<"bar">>),
      <<"USER">> }

Vocabularies == {MetadataLines, ContextLines, OtherLines}

Keyword(line) == ToUpperTok(line[1])

ExitCodes == {1, 2}

----------------------------------------------------------------------------
(* buildFile.Build *)

\* NewBuildFile
NewBuildFile(utilizeCache, rm, forceRm) ==
    [image |-> EmptyID, maintainer |-> <<>>, config |-> EmptyConfig,
     configOf |-> EmptyID,
     tmpContainers |-> {}, tmpImages |-> {}, cmdSet |-> FALSE,
     utilizeCache |-> utilizeCache, rm |-> rm, forceRm |-> forceRm]

ErrDockerfileEmpty == <<"Dockerfile cannot be empty">>
ErrNoImage == <<"No image was generated. This may be because the Dockerfile does not, like, do anything.">>

\* lines 866-893: what can end Build before its loop, and whether the temporary
\* directory exists and its removal is deferred by then
PreambleFailures ==
    {[err |-> <<"TempDir failed">>,        made |-> FALSE, deferred |-> FALSE],
     [err |-> <<"DecompressStream failed">>, made |-> TRUE, deferred |-> FALSE],
     [err |-> <<"Untar failed">>,          made |-> TRUE,  deferred |-> FALSE],
     [err |-> <<"Can't build a directory with no Dockerfile">>, made |-> TRUE, deferred |-> TRUE],
     [err |-> <<"ReadFile failed">>,       made |-> TRUE,  deferred |-> TRUE],
     [err |-> ErrDockerfileEmpty,          made |-> TRUE,  deferred |-> TRUE]}

Remember ==
    [dockerfile |-> dockerfile, result |-> result, created |-> created,
     utilizeCache |-> b.utilizeCache, buildNo |-> buildNo]

StartBuild(utilizeCache, rm, forceRm) ==
    /\ b' = NewBuildFile(utilizeCache, rm, forceRm)
    /\ buildNo' = buildNo + 1
    /\ previous' = Remember
    /\ stepN' = 0
    /\ outStream' = <<>>
    /\ steps' = <<>>
    /\ created' = {}
    /\ undestroyed' = {}
    /\ UNCHANGED <<images, repositories, containers, ncontainers, nfailed, vocabulary,
                   pathArg, pathErr, store, interp, builders, portJob, bridgeJob, currentInterfaces,
                   mappedPorts, netJobs>>

\* a Build call whose preamble succeeds, on a Dockerfile the client wrote anew
BuildStart ==
    /\ phase \in {"idle", "returned"}
    /\ buildNo < MaxBuilds
    /\ buildNo = 0
    /\ \E utilizeCache \in BOOLEAN, rm \in BOOLEAN, forceRm \in BOOLEAN :
          StartBuild(utilizeCache, rm, forceRm)
    /\ dockerfile' = <<>>
    /\ dockerfileEnd' = FALSE
    /\ tmpdirs' = tmpdirs \cup {buildNo + 1}
    /\ phase' = "loop"
    /\ result' = [id |-> EmptyID, err |-> NoError]

\* a second Build call on the same context with the same flags
Rebuild ==
    /\ phase = "returned"
    /\ result.err = NoError
    /\ buildNo < MaxBuilds
    /\ StartBuild(b.utilizeCache, b.rm, b.forceRm)
    /\ UNCHANGED <<dockerfile, dockerfileEnd>>
    /\ tmpdirs' = tmpdirs \cup {buildNo + 1}
    /\ phase' = "loop"
    /\ result' = [id |-> EmptyID, err |-> NoError]

\* a Build call that fails before its loop
BuildPreambleFails ==
    /\ phase \in {"idle", "returned"}
    /\ buildNo < MaxBuilds
    /\ buildNo = 0
    /\ \E f \in PreambleFailures :
          /\ StartBuild(TRUE, FALSE, FALSE)
          /\ tmpdirs' = IF f.made /\ ~f.deferred THEN tmpdirs \cup {buildNo + 1} ELSE tmpdirs
          /\ result' = [id |-> EmptyID, err |-> f.err]
    /\ dockerfile' = <<>>
    /\ dockerfileEnd' = TRUE
    /\ phase' = "returned"

\* the lines the loop may meet next: the next line of the Dockerfile being
\* replayed, or any line while the client's Dockerfile is being read the first time
Replaying == stepN < Len(dockerfile)

\* stripComments, on the lines of the file: a line is dropped when it is empty
\* or its first byte is '#'
stripComments(lines) == SelectSeq(lines, LAMBDA l : ~(Len(l) = 0 \/ l[1] = "#"))

\* line 895: the loop reads the lines that stripComments left
NextLines ==
    IF Replaying THEN {dockerfile[stepN + 1]}
    ELSE IF Len(dockerfile) < MaxLines /\ ~dockerfileEnd
    THEN {l \in vocabulary : stripComments(<<l>>) = <<l>>}
    ELSE {}

HasArgs(line) == Index(line, SP) # 0
LinesOf(kw) == {l \in NextLines : HasArgs(l) /\ Keyword(l) = kw}

\* strings.Replace(line, "\t", " ", -1)
TabsToSpaces(line) == [i \in 1..Len(line) |-> IF line[i] = "\t" THEN SP ELSE line[i]]

\* cleanup policies that read the wrong flag
CleansOnSuccessOnly(R) == Ok(R) /\ b.rm
CleansOnAnyFlag(R) == IF Ok(R) THEN b.rm ELSE b.rm \/ b.forceRm

Cleans(R) == IF Ok(R) THEN b.rm ELSE b.forceRm

\* a loop that reports a handler's error and goes on with the next line
ReturnsAndGoesOn(T, R, rawLine) ==
    /\ images' = T.images
    /\ repositories' = T.repositories
    /\ containers' = T.containers
    /\ ncontainers' = T.ncontainers
    /\ b' = T.b
    /\ outStream' = T.out
    /\ steps' = T.steps
    /\ created' = T.created
    /\ dockerfile' = IF Replaying THEN dockerfile ELSE Append(dockerfile, rawLine)
    /\ stepN' = stepN + 1
    /\ UNCHANGED <<phase, result, tmpdirs>>
    /\ UNCHANGED <<buildNo, previous, dockerfileEnd, vocabulary, pathArg, pathErr, store, interp, builders, portJob, bridgeJob, currentInterfaces,
                   mappedPorts, netJobs>>

Returns(T, R, rawLine) ==
    /\ images' = T.images
    /\ repositories' = T.repositories
    /\ containers' = T.containers
    /\ ncontainers' = T.ncontainers
    /\ b' = T.b
    /\ outStream' = T.out
    /\ steps' = T.steps
    /\ created' = T.created
    /\ dockerfile' = IF Replaying THEN dockerfile ELSE Append(dockerfile, rawLine)
    /\ IF ~Ok(R)
       THEN /\ phase' = "returned"
            /\ result' = [id |-> EmptyID, err |-> R.err]
            /\ tmpdirs' = tmpdirs \ {buildNo}
            /\ stepN' = stepN
       ELSE /\ stepN' = stepN + 1
            /\ UNCHANGED <<phase, result, tmpdirs>>
    /\ UNCHANGED <<buildNo, previous, dockerfileEnd, vocabulary, pathArg, pathErr, store, interp, builders, portJob, bridgeJob, currentInterfaces,
                   mappedPorts, netJobs>>

\* one turn of the loop of lines 898-912 on a non-blank line; the destroy calls
\* of the cleanup fail for the containers of failing
LoopTurn(rawLine, o) ==
    LET line == Trim(TabsToSpaces(rawLine), {SP, "\t", "\r", "\n"})
        \* lines 903-911
        stepped(R) ==
            IF Cleans(R)
            THEN \E failing \in SUBSET R.b.tmpContainers :
                     /\ nfailed + Cardinality(failing) <= MaxDestroyFailures
                     /\ nfailed' = nfailed + Cardinality(failing)
                     /\ undestroyed' = undestroyed \cup failing
                     /\ Returns(clearTmp(R, failing), R, rawLine)
            ELSE /\ Returns(R, R, rawLine)
                 /\ UNCHANGED <<nfailed, undestroyed>>
    IN  /\ phase = "loop"
        /\ stepped(BuildStep(Machine, <<ToString(stepN)>>, line, o))

CommitFaults == {"none", "cache", "create", "mount", "commit"}

\* the collaborator faults the handler of instruction kw can meet
HandlerFaults(kw) ==
    CASE kw = "FROM"   -> CommitFaults \cup {"pull"}
      [] kw = "RUN"    -> CommitFaults \cup {"start", "exit"}
      [] kw = "COPY"   -> CommitFaults \cup {"addContext"}
      [] kw = "ADD"    -> CommitFaults \cup {"addContext", "download"}
      [] kw = "INSERT" -> {"none"}
      [] OTHER         -> CommitFaults

\* what the collaborators do during one loop turn on instruction kw: the fault
\* the handler meets, the exit code of a container that fails, the order in
\* which a map is printed
Oracles(kw) ==
    {[fault |-> f, code |-> c, mapOrder |-> m] :
        f \in HandlerFaults(kw),
        c \in ExitCodes,
        m \in {"up", "down"}}

\* the outcomes that differ for the handler: the exit code counts when the
\* container fails, the order of a map when EXPOSE prints one
Distinct(kw, o) ==
    /\ (o.fault # "exit" => o.code = 1)
    /\ (kw # "EXPOSE" => o.mapOrder = "up")

\* one loop turn on a line of instruction kw, with one of the faults its
\* handler can meet
Turn(kw) ==
    \E line \in LinesOf(kw) : \E o \in Oracles(kw) : Distinct(kw, o) /\ LoopTurn(line, o)

TurnFrom       == Turn("FROM")
TurnOnbuild    == Turn("ONBUILD")
TurnMaintainer == Turn("MAINTAINER")
TurnRun        == Turn("RUN")
TurnEnv        == Turn("ENV")
TurnCmd        == Turn("CMD")
TurnEntrypoint == Turn("ENTRYPOINT")
TurnExpose     == Turn("EXPOSE")
TurnUser       == Turn("USER")
TurnInsert     == Turn("INSERT")
TurnCopy       == Turn("COPY")
TurnWorkdir    == Turn("WORKDIR")
TurnVolume     == Turn("VOLUME")
TurnAdd        == Turn("ADD")

\* a line whose instruction has no handler
TurnUnknown ==
    \E line \in NextLines :
        /\ HasArgs(line) /\ Keyword(line) \notin Keywords
        /\ LoopTurn(line, [fault |-> "none", code |-> 1, mapOrder |-> "up"])

\* a line that is one word
TurnInvalid ==
    \E line \in NextLines :
        /\ ~HasArgs(line)
        /\ LoopTurn(line, [fault |-> "none", code |-> 1, mapOrder |-> "up"])

\* a return that reports success whatever b.image is
BuildReturnAlwaysSucceeds ==
    /\ phase = "loop"
    /\ ~Replaying
    /\ dockerfile # <<>>
    /\ phase' = "returned"
    /\ dockerfileEnd' = TRUE
    /\ result' = [id |-> b.image, err |-> NoError]
    /\ outStream' = Append(outStream, [ev |-> "Successfully built", id |-> b.image])
    /\ tmpdirs' = tmpdirs \ {buildNo}
    /\ UNCHANGED <<images, repositories, containers, ncontainers, nfailed, b, vocabulary,
                   dockerfile, stepN, steps, created, undestroyed, buildNo, previous,
                   pathArg, pathErr, store, interp, builders, portJob, bridgeJob, currentInterfaces,
                   mappedPorts, netJobs>>

\* lines 913-917: the loop is over
BuildReturn ==
    /\ phase = "loop"
    /\ ~Replaying
    /\ dockerfile # <<>>
    /\ phase' = "returned"
    /\ dockerfileEnd' = TRUE
    /\ IF b.image # EmptyID
       THEN /\ result' = [id |-> b.image, err |-> NoError]
            /\ outStream' = Append(outStream, [ev |-> "Successfully built", id |-> b.image])
       ELSE /\ result' = [id |-> EmptyID, err |-> ErrNoImage]
            /\ UNCHANGED outStream
    /\ tmpdirs' = tmpdirs \ {buildNo}
    /\ UNCHANGED <<images, repositories, containers, ncontainers, nfailed, b, vocabulary,
                   dockerfile, stepN, steps, created, undestroyed, buildNo, previous,
                   pathArg, pathErr, store, interp, builders, portJob, bridgeJob, currentInterfaces,
                   mappedPorts, netJobs>>

----------------------------------------------------------------------------
(* The daemon before the first build: one local base image *)

BaseImage ==
    [ID |-> 1, Parent |-> EmptyID,
     Config |-> [EmptyConfig EXCEPT !.Cmd = << <<"x">> >>],
     ContainerConfig |-> EmptyConfig, Author |-> <<>>]

Unchecked == <<"not checked">>

\* no call of createBridge was made
NoBridgeJob == [pc |-> "none"]

\* currentInterfaces before any Allocate
NoInterfaces == [c |-> <<>>, objects |-> <<>>]

\* the bridge driver has not been called apart from AllocatePort
NoDriver ==
    /\ bridgeJob = NoBridgeJob
    /\ currentInterfaces = NoInterfaces
    /\ mappedPorts = {}
    /\ netJobs = <<>>

\* no call of AllocatePort was made
NoPortJob == [pc |-> "none"]

\* no call of ReplaceEnvMatches was made
NoInterp == [env |-> <<>>, value |-> <<>>, out |-> <<>>, done |-> FALSE]

InitDaemon ==
    /\ images = (1 :> BaseImage)
    /\ repositories = (<<"base">> :> 1)
    /\ containers = <<>>
    /\ ncontainers = 0
    /\ nfailed = 0
    /\ b = NewBuildFile(TRUE, FALSE, FALSE)
    /\ dockerfile = <<>>
    /\ dockerfileEnd = FALSE
    /\ stepN = 0
    /\ tmpdirs = {}
    /\ phase = "idle"
    /\ result = [id |-> EmptyID, err |-> NoError]
    /\ outStream = <<>>
    /\ steps = <<>>
    /\ created = {}
    /\ undestroyed = {}
    /\ buildNo = 0
    /\ previous = [dockerfile |-> <<>>, result |-> [id |-> EmptyID, err |-> NoError],
                   created |-> {}, utilizeCache |-> FALSE, buildNo |-> 0]

Init ==
    /\ InitDaemon
    /\ vocabulary \in Vocabularies
    /\ pathArg = <<>>
    /\ pathErr = Unchecked
    /\ store = "disk"
    /\ interp = NoInterp
    /\ builders = <<>>
    /\ portJob = NoPortJob
    /\ NoDriver

Next ==
    \/ BuildStart
    \/ Rebuild
    \/ BuildPreambleFails
    \/ TurnFrom
    \/ TurnOnbuild
    \/ TurnMaintainer
    \/ TurnRun
    \/ TurnEnv
    \/ TurnCmd
    \/ TurnEntrypoint
    \/ TurnExpose
    \/ TurnUser
    \/ TurnInsert
    \/ TurnCopy
    \/ TurnWorkdir
    \/ TurnVolume
    \/ TurnAdd
    \/ TurnUnknown
    \/ TurnInvalid
    \/ BuildReturn

Spec == Init /\ [][Next]_vars

----------------------------------------------------------------------------
(* Two builds of different Dockerfiles against one image store *)

CacheLines ==
    { Line("FROM", <<"base">>),
      Line("CMD", <<"[", QT, "a", QT, ",", QT, "b", QT, "]">>),
      Line("CMD", <<"[", QT, "a", SP, "b", QT, "]">>) }

\* a later Build call, on another Dockerfile of the same client
BuildAnother ==
    /\ phase = "returned"
    /\ result.err = NoError
    /\ buildNo < MaxBuilds
    /\ \E utilizeCache \in BOOLEAN : StartBuild(utilizeCache, b.rm, b.forceRm)
    /\ dockerfile' = <<>>
    /\ dockerfileEnd' = FALSE
    /\ tmpdirs' = tmpdirs \cup {buildNo + 1}
    /\ phase' = "loop"
    /\ result' = [id |-> EmptyID, err |-> NoError]

InitCache ==
    /\ InitDaemon
    /\ vocabulary = CacheLines
    /\ pathArg = <<>>
    /\ pathErr = Unchecked
    /\ store = "disk"
    /\ interp = NoInterp
    /\ builders = <<>>
    /\ portJob = NoPortJob
    /\ NoDriver

NextCache ==
    \/ BuildStart
    \/ BuildAnother
    \/ TurnFrom
    \/ TurnCmd
    \/ BuildReturn

SpecCache == InitCache /\ [][NextCache]_vars

----------------------------------------------------------------------------
(* Builds that set environment variables *)

EnvLines ==
    { Line("FROM", <<"base">>), Line("FROM", <<"onb">>),
      Line("ENV", <<"K", SP, "v">>),
      Line("ENV", <<"K", SP, "w">>),
      Line("ENV", <<"K", "=", "J", SP, "v">>) }

InitEnv ==
    /\ InitDaemon
    /\ vocabulary = EnvLines
    /\ pathArg = <<>>
    /\ pathErr = Unchecked
    /\ store = "disk"
    /\ interp = NoInterp
    /\ builders = <<>>
    /\ portJob = NoPortJob
    /\ NoDriver

NextEnv ==
    \/ BuildStart
    \/ TurnFrom
    \/ TurnEnv
    \/ BuildReturn

SpecEnv == InitEnv /\ [][NextEnv]_vars

(* Two builds against one store whose ENV lines interpolate to the same entry *)

EnvCacheLines ==
    { Line("FROM", <<"base">>),
      Line("ENV", <<"K", SP, "v">>),
      Line("ENV", <<"A", SP, "$", "K">>),
      Line("ENV", <<"A", SP, "v">>) }

InitEnvCache ==
    /\ InitDaemon
    /\ vocabulary = EnvCacheLines
    /\ pathArg = <<>>
    /\ pathErr = Unchecked
    /\ store = "disk"
    /\ interp = NoInterp
    /\ builders = <<>>
    /\ portJob = NoPortJob
    /\ NoDriver

NextEnvCache ==
    \/ BuildStart
    \/ BuildAnother
    \/ TurnFrom
    \/ TurnEnv
    \/ BuildReturn

SpecEnvCache == InitEnvCache /\ [][NextEnvCache]_vars

----------------------------------------------------------------------------
(* Builds on images that carry triggers, and lines the builder does not know *)

TriggerLines ==
    { Line("FROM", <<"onb2">>), Line("FROM", <<"onbq">>), Line("FROM", <<"onbf">>),
      Line("FROM", <<"onbv">>),
      Line("USER", <<"u">>),
      Line("ONBUILD", <<"USER", SP, "t">>),
      Line("ONBUILD", <<"from", SP, "base">>),
      Line("ONBUILD", <<"OnBuild", SP, "USER", SP, "t">>),
      Line("ONBUILD", <<"Maintainer", SP, "me">>),
      Line("FOO", <<"bar">>),
      <<"FOO">>, <<"USER">> }

InitTrig ==
    /\ InitDaemon
    /\ vocabulary = TriggerLines
    /\ pathArg = <<>>
    /\ pathErr = Unchecked
    /\ store = "disk"
    /\ interp = NoInterp
    /\ builders = <<>>
    /\ portJob = NoPortJob
    /\ NoDriver

NextTrig ==
    \/ BuildStart
    \/ Rebuild
    \/ TurnFrom
    \/ TurnOnbuild
    \/ TurnUser
    \/ TurnUnknown
    \/ TurnInvalid
    \/ BuildReturn

SpecTrig == InitTrig /\ [][NextTrig]_vars

----------------------------------------------------------------------------
(* Builds that add archives, directories and remote files *)

AddLines ==
    { Line("FROM", <<"base">>),
      Line("ADD", <<"f", SP, SL, "x">>),
      Line("ADD", <<"d", SL, "g", SP, SL, "x">>),
      Line("ADD", <<"d", SP, SL, "x">>),
      Line("ADD", <<"http://", "h", SL, "r", SP, SL, "x">>),
      Line("COPY", <<"f", SP, SL, "x">>),
      Line("COPY", <<"http://", "h", SL, "r", SP, SL, "x">>) }

InitAdd ==
    /\ InitDaemon
    /\ vocabulary = AddLines
    /\ pathArg = <<>>
    /\ pathErr = Unchecked
    /\ store = "disk"
    /\ interp = NoInterp
    /\ builders = <<>>
    /\ portJob = NoPortJob
    /\ NoDriver

NextAdd ==
    \/ BuildStart
    \/ TurnFrom
    \/ TurnCopy
    \/ TurnAdd
    \/ BuildReturn

SpecAdd == InitAdd /\ [][NextAdd]_vars

----------------------------------------------------------------------------
(* Dockerfiles with comment lines *)

CommentLines ==
    { Line("FROM", <<"base">>),
      Line("USER", <<"u">>),
      <<"#", SP, "c">>,
      <<SP, SP, "#", SP, "c">>,
      <<"\t", "#", "c">> }

InitComment ==
    /\ InitDaemon
    /\ vocabulary = CommentLines
    /\ pathArg = <<>>
    /\ pathErr = Unchecked
    /\ store = "disk"
    /\ interp = NoInterp
    /\ builders = <<>>
    /\ portJob = NoPortJob
    /\ NoDriver

NextComment ==
    \/ BuildStart
    \/ TurnFrom
    \/ TurnUser
    \/ TurnUnknown
    \/ TurnInvalid
    \/ BuildReturn

SpecComment == InitComment /\ [][NextComment]_vars

----------------------------------------------------------------------------
(* The same builds against either kind of image store *)

InitStore ==
    /\ InitDaemon
    /\ vocabulary = EnvLines
    /\ pathArg = <<>>
    /\ pathErr = Unchecked
    /\ store \in {"disk", "memory"}
    /\ interp = NoInterp
    /\ builders = <<>>
    /\ portJob = NoPortJob
    /\ NoDriver

SpecStore == InitStore /\ [][NextEnv]_vars

----------------------------------------------------------------------------
(* checkPathForAddition on the source paths a Dockerfile can name *)

MaxPathLen == 3

PathTokens == {".", "..", SL, "f", "d", "g", "l", "e", "s"}

PathInputs == UNION {[1..n -> PathTokens] : n \in 1..MaxPathLen}

InitPath ==
    /\ InitDaemon
    /\ vocabulary = ContextLines
    /\ pathArg \in PathInputs
    /\ pathErr = Unchecked
    /\ store = "disk"
    /\ interp = NoInterp
    /\ builders = <<>>
    /\ portJob = NoPortJob
    /\ NoDriver

\* line 675: runContextCommand checks the source path of a COPY or ADD
CheckPath ==
    /\ pathErr = Unchecked
    /\ pathErr' = checkPathForAddition(pathArg, FALSE)
    /\ UNCHANGED <<images, repositories, containers, ncontainers, nfailed, b, vocabulary,
                   dockerfile, dockerfileEnd, stepN, tmpdirs, phase, result, outStream,
                   steps, created, undestroyed, buildNo, previous, pathArg, store, interp, builders, portJob, bridgeJob, currentInterfaces,
                   mappedPorts, netJobs>>

NextPath == CheckPath

SpecPath == InitPath /\ [][NextPath]_vars

----------------------------------------------------------------------------
(* ReplaceEnvMatches on the values an ENV line can carry, character by character *)

MaxValueLen == 5

InterpTokens == {"$", "A", "B", "\\", "{", "}"}

InterpValues == UNION {[1..n -> InterpTokens] : n \in 1..MaxValueLen}

\* b.config.Env as earlier ENV steps can have left it
InterpEnvs ==
    { <<>>,
      << <<"A", "=", "x">> >>,
      << <<"A", "=", "x">>, <<"A", "B", "=", "y">> >>,
      << <<"A", "=", "$", "B">>, <<"B", "=", "y">> >>,
      << <<"B", "=", "y">>, <<"A", "=", "x">>, <<"A", "=", "z">> >> }

InitInterp ==
    /\ InitDaemon
    /\ vocabulary = EnvLines
    /\ pathArg = <<>>
    /\ pathErr = Unchecked
    /\ store = "disk"
    /\ interp \in {[env |-> e, value |-> v, out |-> <<>>, done |-> FALSE] :
                       e \in InterpEnvs, v \in InterpValues}
    /\ builders = <<>>
    /\ portJob = NoPortJob
    /\ NoDriver

\* line 365: CmdEnv interpolates the value of its argument
Interpolate ==
    /\ ~interp.done
    /\ interp' = [interp EXCEPT
                     !.out = ReplaceEnvMatches([Machine EXCEPT !.b.config.Env = interp.env],
                                               interp.value),
                     !.done = TRUE]
    /\ UNCHANGED <<images, repositories, containers, ncontainers, nfailed, b, vocabulary,
                   dockerfile, dockerfileEnd, stepN, tmpdirs, phase, result, outStream,
                   steps, created, undestroyed, buildNo, previous, pathArg, pathErr, store, builders, portJob, bridgeJob, currentInterfaces,
                   mappedPorts, netJobs>>

NextInterp == Interpolate

SpecInterp == InitInterp /\ [][NextInterp]_vars

----------------------------------------------------------------------------
(* Builds of one Dockerfile,  FROM base / USER u,  that run at the same time *)
(* against one daemon.  Each build has a buildFile of its own; the daemon's *)
(* calls (ImageGetCached, Create, Commit, Destroy) are the atomic steps.    *)
(* Builds 1 and 2 race; build 3 starts after both have returned.            *)

Racing == {1, 2}
Later  == 3

NoFault == [fault |-> "none", code |-> 1, mapOrder |-> "up"]

RaceArgs == <<"u">>

\* the machine as build i sees it
MachineOf(i) == [Machine EXCEPT !.b = builders[i].b]

NewBuilder(rm) ==
    [b |-> NewBuildFile(TRUE, rm, FALSE), pc |-> "from", cmd |-> <<>>, cid |-> EmptyID,
     missed |-> FALSE, destroyed |-> {}, err |-> NoError]

InitRace ==
    /\ InitDaemon
    /\ vocabulary = {Line("FROM", <<"base">>), Line("USER", RaceArgs)}
    /\ pathArg = <<>>
    /\ pathErr = Unchecked
    /\ store = "disk"
    /\ interp = NoInterp
    /\ builders \in {<<NewBuilder(r1), NewBuilder(r2), NewBuilder(TRUE)>> :
                         r1 \in BOOLEAN, r2 \in BOOLEAN}
    /\ portJob = NoPortJob
    /\ NoDriver

\* what a step of build i leaves: the daemon's state and the build's own
RaceResult(i, R, pc, cid) ==
    /\ images' = R.images
    /\ repositories' = R.repositories
    /\ containers' = R.containers
    /\ ncontainers' = R.ncontainers
    /\ created' = R.created
    /\ builders' = [builders EXCEPT ![i].b = R.b,
                                    ![i].err = R.err,
                                    ![i].cid = cid,
                                    ![i].pc = IF Ok(R) THEN pc ELSE "failed"]
    /\ UNCHANGED <<nfailed, b, vocabulary, dockerfile, dockerfileEnd, stepN, tmpdirs,
                   phase, result, outStream, steps, undestroyed, buildNo, previous,
                   pathArg, pathErr, store, interp, portJob, bridgeJob, currentInterfaces,
                   mappedPorts, netJobs>>

\* the loop turn on FROM base; the later build starts when the racing ones returned
RaceFrom(i) ==
    /\ builders[i].pc = "from"
    /\ i = Later => \A j \in Racing : builders[j].pc \in {"done", "failed"}
    /\ RaceResult(i, CmdFrom(MachineOf(i), <<"base">>, NoFault), "probe", EmptyID)

\* CmdUser and commit up to the answer of probeCache (lines 811-826)
RaceProbe(i) ==
    /\ builders[i].pc = "probe"
    /\ LET S == [MachineOf(i) EXCEPT !.b.config.User = RaceArgs,
                                      !.b.config.Image = builders[i].b.image]
           cmd == S.b.config.Cmd
           P == probeCache([S EXCEPT !.b.config.Cmd = NopCmd(<<"USER", SP>> \o RaceArgs)],
                           "none")
       IN  IF P.hit
           THEN RaceResult(i, [P.S EXCEPT !.b.config.Cmd = cmd], "clear", EmptyID)
           ELSE /\ images' = P.S.images
                /\ builders' = [builders EXCEPT ![i].b = P.S.b, ![i].cmd = cmd,
                                                ![i].missed = TRUE, ![i].pc = "create"]
                /\ UNCHANGED <<repositories, containers, ncontainers, created, nfailed, b,
                               vocabulary, dockerfile, dockerfileEnd, stepN, tmpdirs,
                               phase, result, outStream, steps, undestroyed, buildNo,
                               previous, pathArg, pathErr, store, interp, portJob, bridgeJob, currentInterfaces,
                   mappedPorts, netJobs>>

\* lines 828-837: b.daemon.Create and the tracking of the container
RaceCreate(i) ==
    /\ builders[i].pc = "create"
    /\ LET S == MachineOf(i)
           cid == NextContainerID(S)
       IN  RaceResult(i, [DaemonCreate(S, S.b.config)
                             EXCEPT !.b.tmpContainers = @ \cup {cid}], "commit", cid)

\* lines 844-860 and the deferred restore of b.config.Cmd
RaceCommit(i) ==
    /\ builders[i].pc = "commit"
    /\ LET S == MachineOf(i)
           cid == builders[i].cid
           R == commitContainer(S, cid, builders[i].cmd, "none")
       IN  RaceResult(i, [R EXCEPT !.b.config.Cmd = builders[i].cmd], "clear", cid)

\* lines 907-909 and 913-916: the cleanup after the step, then Build returns
RaceClear(i) ==
    /\ builders[i].pc = "clear"
    /\ LET S == MachineOf(i)
           R == IF S.b.rm THEN clearTmp(S, {}) ELSE S
       IN  /\ images' = R.images
           /\ containers' = R.containers
           /\ builders' = [builders EXCEPT
                              ![i].b = R.b,
                              ![i].destroyed = DOMAIN S.containers \ DOMAIN R.containers,
                              ![i].pc = "done"]
           /\ UNCHANGED <<repositories, ncontainers, created, nfailed, b,
                          vocabulary, dockerfile, dockerfileEnd, stepN, tmpdirs,
                          phase, result, outStream, steps, undestroyed, buildNo,
                          previous, pathArg, pathErr, store, interp, portJob, bridgeJob, currentInterfaces,
                   mappedPorts, netJobs>>

NextRace ==
    \/ \E i \in Racing \cup {Later} : RaceFrom(i)
    \/ \E i \in Racing \cup {Later} : RaceProbe(i)
    \/ \E i \in Racing \cup {Later} : RaceCreate(i)
    \/ \E i \in Racing \cup {Later} : RaceCommit(i)
    \/ \E i \in Racing \cup {Later} : RaceClear(i)

SpecRace == InitRace /\ [][NextRace]_vars

----------------------------------------------------------------------------
(* bridge driver: AllocatePort.  portmapper.Map is a collaborator: what a   *)
(* call returns (a host address, ErrPortAlreadyAllocated or another error)  *)
(* is an input of the step that calls it.  The job names a container whose  *)
(* interface currentInterfaces holds.                                       *)

MaxAllocatedPortAttempts == 10

Protos == {"tcp", "udp", "sctp"}

\* job.GetenvInt("HostPort"): 0 asks for a port of the allocator's choice
HostPorts == {0, 80}

\* the ports the allocator hands out by itself
AutoPorts == {49153, 49154}

\* network.PortMappings as earlier calls left it
EarlierMappings == {<<>>, <<[proto |-> "tcp", port |-> 22]>>}

MapErrors == {"ErrPortAlreadyAllocated", "other"}

InitPort ==
    /\ InitDaemon
    /\ vocabulary = EnvLines
    /\ pathArg = <<>>
    /\ pathErr = Unchecked
    /\ store = "disk"
    /\ interp = NoInterp
    /\ builders = <<>>
    /\ portJob \in {[pc |-> "called", hostPort |-> h, proto |-> p, i |-> 0, maps |-> <<>>,
                      err |-> NoError, host |-> <<>>, status |-> <<>>,
                      before |-> m, PortMappings |-> m] :
                         h \in HostPorts, p \in Protos, m \in EarlierMappings}
    /\ bridgeJob = NoBridgeJob
    /\ currentInterfaces = NoInterfaces
    /\ mappedPorts = {}
    /\ netJobs = <<>>

PortUnchanged ==
    UNCHANGED <<images, repositories, containers, ncontainers, nfailed, b, vocabulary,
                dockerfile, dockerfileEnd, stepN, tmpdirs, phase, result, outStream,
                steps, created, undestroyed, buildNo, previous, pathArg, pathErr, store,
                interp, builders, currentInterfaces, mappedPorts, netJobs, bridgeJob>>

\* lines 396-404: the container address, or the end of the job on a protocol
\* that is neither tcp nor udp
AllocateStart ==
    /\ portJob.pc = "called"
    /\ portJob' = IF portJob.proto \in {"tcp", "udp"}
                  THEN [portJob EXCEPT !.pc = "loop"]
                  ELSE [portJob EXCEPT !.pc = "returned",
                                       !.status = <<"unsupported address type ">>
                                                  \o <<portJob.proto>>]
    /\ PortUnchanged

\* a loop that goes on after any failure
RetriesAlways(kind, hostPort) == TRUE

\* lines 418-432: whether the loop goes on after a failed Map
Retries(kind, hostPort) == kind = "ErrPortAlreadyAllocated" /\ hostPort = 0

\* the error of the n-th call of Map
MapError(kind, n) == <<kind, ToString(n)>>

\* lines 413-416: Map returns a host address, the loop ends
MapSucceeds ==
    /\ portJob.pc = "loop"
    /\ \E port \in IF portJob.hostPort = 0 THEN AutoPorts ELSE {portJob.hostPort} :
           portJob' = [portJob EXCEPT !.maps = Append(@, <<"nil">>),
                                      !.host = <<[proto |-> portJob.proto, port |-> port]>>,
                                      !.err = NoError,
                                      !.pc = "mapped"]
    /\ PortUnchanged

\* lines 413-433: Map fails; the loop goes on or ends
MapFails ==
    /\ portJob.pc = "loop"
    /\ \E kind \in MapErrors :
           LET n == Len(portJob.maps) + 1
               again == Retries(kind, portJob.hostPort)
                        /\ portJob.i + 1 < MaxAllocatedPortAttempts
           IN  portJob' = [portJob EXCEPT !.maps = Append(@, MapError(kind, n)),
                                          !.host = <<>>,
                                          !.err = MapError(kind, n),
                                          !.i = IF Retries(kind, portJob.hostPort)
                                                THEN @ + 1 ELSE @,
                                          !.pc = IF again THEN "loop" ELSE "mapped"]
    /\ PortUnchanged

\* lines 435-454: the error of the last Map, or the mapping appended and the
\* answer written to job.Stdout, which can fail
AllocateReturn ==
    /\ portJob.pc = "mapped"
    /\ IF portJob.err # NoError
       THEN portJob' = [portJob EXCEPT !.pc = "returned", !.status = portJob.err]
       ELSE \E written \in BOOLEAN :
               portJob' = [portJob EXCEPT
                             !.pc = "returned",
                             !.PortMappings = @ \o portJob.host,
                             !.status = IF written THEN <<"StatusOK">>
                                        ELSE <<"WriteTo failed">>]
    /\ PortUnchanged

NextPort ==
    \/ AllocateStart
    \/ MapSucceeds
    \/ MapFails
    \/ AllocateReturn

SpecPort == InitPort /\ [][NextPort]_vars

----------------------------------------------------------------------------
(* bridge driver: createBridge.  The calls into net, netlink and            *)
(* networkdriver are collaborators: what each returns is an input of the    *)
(* step that makes the call.                                                *)

\* lines 52-70
addrs ==
    <<"172.17.42.1/16", "10.0.42.1/16", "10.1.42.1/16", "10.42.42.1/16",
      "172.16.42.1/24", "172.16.43.1/24", "172.16.44.1/24", "10.0.43.1/24",
      "10.0.42.1/24", "192.168.42.1/24", "192.168.43.1/24", "192.168.44.1/24">>

\* the parameter bridgeIP: none, an address with its mask, a text that is neither
BridgeIPs == {"", "10.9.0.1/16", "bad"}

\* net.ParseCIDR
ParseCIDRFails(s) == s = "bad"

InitBridge ==
    /\ InitDaemon
    /\ vocabulary = EnvLines
    /\ pathArg = <<>>
    /\ pathErr = Unchecked
    /\ store = "disk"
    /\ interp = NoInterp
    /\ builders = <<>>
    /\ portJob = NoPortJob
    /\ currentInterfaces = NoInterfaces
    /\ mappedPorts = {}
    /\ netJobs = <<>>
    /\ bridgeJob \in {[pc |-> "called", bridgeIP |-> ip, ifaceAddr |-> "", k |-> 1,
                        err |-> NoError, created |-> FALSE, addIp |-> "not called",
                        linkUp |-> "not called", ret |-> <<>>] : ip \in BridgeIPs}

BridgeUnchanged ==
    UNCHANGED <<images, repositories, containers, ncontainers, nfailed, b, vocabulary,
                dockerfile, dockerfileEnd, stepN, tmpdirs, phase, result, outStream,
                steps, created, undestroyed, buildNo, previous, pathArg, pathErr, store,
                interp, builders, portJob, currentInterfaces, mappedPorts, netJobs>>

BridgeReturns(e) == [bridgeJob EXCEPT !.pc = "returned", !.ret = e]

\* lines 257-263: a bridgeIP that was given is the address, when it parses
BridgeGiven ==
    /\ bridgeJob.pc = "called"
    /\ bridgeJob' = IF bridgeJob.bridgeIP = ""
                    THEN [bridgeJob EXCEPT !.pc = "range"]
                    ELSE IF ParseCIDRFails(bridgeJob.bridgeIP)
                    THEN BridgeReturns(<<"invalid CIDR address: ", bridgeJob.bridgeIP>>)
                    ELSE [bridgeJob EXCEPT !.ifaceAddr = bridgeJob.bridgeIP,
                                           !.pc = "create"]
    /\ BridgeUnchanged

\* lines 264-282: the first address of addrs that overlaps no nameserver and
\* no route; the error of line 281 when the loop ends without one
BridgeRange ==
    /\ bridgeJob.pc = "range"
    /\ \E overlaps \in {"none", "nameserver", "route"} :
           bridgeJob' =
               IF overlaps = "none"
               THEN [bridgeJob EXCEPT !.ifaceAddr = addrs[bridgeJob.k], !.pc = "create"]
               ELSE IF bridgeJob.k < Len(addrs)
               THEN [bridgeJob EXCEPT !.k = @ + 1]
               ELSE BridgeReturns(<<"Could not find a free IP address range for interface">>)
    /\ BridgeUnchanged

\* lines 285-287: createBridgeIface
BridgeCreateIface ==
    /\ bridgeJob.pc = "create"
    /\ \E ok \in BOOLEAN :
           bridgeJob' = IF ok THEN [bridgeJob EXCEPT !.created = TRUE, !.pc = "lookup"]
                        ELSE BridgeReturns(<<"CreateBridge failed">>)
    /\ BridgeUnchanged

\* lines 289-297: net.InterfaceByName, then net.ParseCIDR on the address, which
\* assigns the err that line 299 reads
BridgeLookup ==
    /\ bridgeJob.pc = "lookup"
    /\ \E found \in BOOLEAN :
           bridgeJob' =
               IF ~found THEN BridgeReturns(<<"no such network interface">>)
               ELSE IF ParseCIDRFails(bridgeJob.ifaceAddr)
               THEN BridgeReturns(<<"invalid CIDR address: ", bridgeJob.ifaceAddr>>)
               ELSE [bridgeJob EXCEPT !.err = NoError, !.pc = "addIp"]
    /\ BridgeUnchanged

\* lines 299-301:  if netlink.NetworkLinkAddIp(iface, ipAddr, ipNet); err != nil
\* the call is the init statement of the if, its result is dropped; the
\* condition reads the err of line 294
BridgeAddIp ==
    /\ bridgeJob.pc = "addIp"
    /\ \E added \in BOOLEAN :
           LET called == [bridgeJob EXCEPT !.addIp = IF added THEN "ok" ELSE "failed"]
           IN  bridgeJob' =
                   IF called.err # NoError
                   THEN [called EXCEPT !.pc = "returned",
                                       !.ret = <<"Unable to add private network: ">>
                                               \o called.err]
                   ELSE [called EXCEPT !.pc = "linkUp"]
    /\ BridgeUnchanged

\* lines 302-305: netlink.NetworkLinkUp
BridgeLinkUp ==
    /\ bridgeJob.pc = "linkUp"
    /\ \E up \in BOOLEAN :
           bridgeJob' =
               IF up THEN [bridgeJob EXCEPT !.linkUp = "ok", !.pc = "returned", !.ret = NoError]
               ELSE [bridgeJob EXCEPT !.linkUp = "failed", !.pc = "returned",
                                      !.ret = <<"Unable to start network bridge: ">>]
    /\ BridgeUnchanged

NextBridge ==
    \/ BridgeGiven
    \/ BridgeRange
    \/ BridgeCreateIface
    \/ BridgeLookup
    \/ BridgeAddIp
    \/ BridgeLinkUp

SpecBridge == InitBridge /\ [][NextBridge]_vars

----------------------------------------------------------------------------
(* bridge driver: Allocate, AllocatePort and Release jobs for one container *)
(* that run at the same time.  ifaces.Set and ifaces.Get hold the mutex and *)
(* are atomic; the networkInterface a pointer names is read and written     *)
(* outside it.  The two accesses of                                         *)
(*     network.PortMappings = append(network.PortMappings, host)            *)
(* are steps of their own: between them another job can write the field.   *)
(* portmapper and ipallocator are collaborators whose calls succeed here.   *)

ContainerID == "c1"

\* jobs 1 and 2 are AllocatePort, job 3 is Allocate, job 4 is Release
PortJobs == {1, 2}
AllocateJob == 3
ReleaseJob == 4

NewJob(kind) ==
    [kind |-> kind, pc |-> "called", network |-> 0, host |-> <<>>, seen |-> <<>>,
     late |-> FALSE]

NewInterface(ip) == [IP |-> ip, PortMappings |-> <<>>]

InitIfaces ==
    /\ InitDaemon
    /\ vocabulary = EnvLines
    /\ pathArg = <<>>
    /\ pathErr = Unchecked
    /\ store = "disk"
    /\ interp = NoInterp
    /\ builders = <<>>
    /\ portJob = NoPortJob
    /\ bridgeJob = NoBridgeJob
    /\ currentInterfaces = [c |-> (ContainerID :> 1), objects |-> <<NewInterface(1)>>]
    /\ mappedPorts = {}
    /\ netJobs = <<NewJob("AllocatePort"), NewJob("AllocatePort"),
                   NewJob("Allocate"), NewJob("Release")>>

IfacesUnchanged ==
    UNCHANGED <<images, repositories, containers, ncontainers, nfailed, b, vocabulary,
                dockerfile, dockerfileEnd, stepN, tmpdirs, phase, result, outStream,
                steps, created, undestroyed, buildNo, previous, pathArg, pathErr, store,
                interp, builders, portJob, bridgeJob>>

\* ifaces.Get, lines 44-49: the pointer the map holds for key, 0 for nil
IfacesGet(key) ==
    IF key \in DOMAIN currentInterfaces.c THEN currentInterfaces.c[key] ELSE 0

Returned(j) == netJobs[j].pc = "returned"

\* Allocate, lines 318-351: a new networkInterface with the address
\* ipallocator gave takes the place of the one the map held
Allocate ==
    /\ netJobs[AllocateJob].pc = "called"
    /\ LET n == Len(currentInterfaces.objects) + 1
       IN  currentInterfaces' =
               [c |-> (ContainerID :> n) @@ currentInterfaces.c,
                objects |-> Append(currentInterfaces.objects, NewInterface(n))]
    /\ netJobs' = [netJobs EXCEPT ![AllocateJob].pc = "returned"]
    /\ UNCHANGED mappedPorts
    /\ IfacesUnchanged

\* AllocatePort, line 387: network = currentInterfaces.Get(id)
PortGet(j) ==
    /\ netJobs[j].kind = "AllocatePort" /\ netJobs[j].pc = "called"
    /\ netJobs' = [netJobs EXCEPT ![j].network = IfacesGet(ContainerID), ![j].pc = "map"]
    /\ UNCHANGED <<currentInterfaces, mappedPorts>>
    /\ IfacesUnchanged

\* AllocatePort, lines 413-416: portmapper.Map gives a free host port
PortMap(j) ==
    /\ netJobs[j].kind = "AllocatePort" /\ netJobs[j].pc = "map"
    /\ \E p \in AutoPorts :
           LET host == [proto |-> "tcp", port |-> p]
           IN  /\ host \notin mappedPorts
               /\ mappedPorts' = mappedPorts \cup {host}
               /\ netJobs' = [netJobs EXCEPT ![j].host = <<host>>, ![j].pc = "load"]
    /\ UNCHANGED currentInterfaces
    /\ IfacesUnchanged

\* AllocatePort, line 439: the read of network.PortMappings
PortLoad(j) ==
    /\ netJobs[j].kind = "AllocatePort" /\ netJobs[j].pc = "load"
    /\ netJobs' = [netJobs EXCEPT
                      ![j].seen = currentInterfaces.objects[netJobs[j].network].PortMappings,
                      ![j].pc = "store"]
    /\ UNCHANGED <<currentInterfaces, mappedPorts>>
    /\ IfacesUnchanged

\* AllocatePort, lines 439-454: the write of network.PortMappings, the return
PortStore(j) ==
    /\ netJobs[j].kind = "AllocatePort" /\ netJobs[j].pc = "store"
    /\ currentInterfaces' =
           [currentInterfaces EXCEPT
              !.objects[netJobs[j].network].PortMappings = netJobs[j].seen \o netJobs[j].host]
    /\ netJobs' = [netJobs EXCEPT ![j].pc = "returned"]
    /\ UNCHANGED mappedPorts
    /\ IfacesUnchanged

\* Release, line 357: containerInterface = currentInterfaces.Get(id); late
\* tells that both AllocatePort jobs had returned by then
ReleaseGet ==
    /\ netJobs[ReleaseJob].pc = "called"
    /\ netJobs' = [netJobs EXCEPT
                      ![ReleaseJob].network = IfacesGet(ContainerID),
                      ![ReleaseJob].late = \A j \in PortJobs : Returned(j),
                      ![ReleaseJob].pc = "unmap"]
    /\ UNCHANGED <<currentInterfaces, mappedPorts>>
    /\ IfacesUnchanged

\* Release, lines 360-373: portmapper.Unmap for every entry of the
\* PortMappings the range statement read, then ipallocator.ReleaseIP
ReleaseUnmap ==
    /\ netJobs[ReleaseJob].pc = "unmap"
    /\ LET nats == currentInterfaces.objects[netJobs[ReleaseJob].network].PortMappings
       IN  /\ mappedPorts' = mappedPorts \ {nats[k] : k \in 1..Len(nats)}
           /\ netJobs' = [netJobs EXCEPT ![ReleaseJob].seen = nats,
                                         ![ReleaseJob].pc = "returned"]
    /\ UNCHANGED currentInterfaces
    /\ IfacesUnchanged

NextIfaces ==
    \/ Allocate
    \/ \E j \in PortJobs : PortGet(j)
    \/ \E j \in PortJobs : PortMap(j)
    \/ \E j \in PortJobs : PortLoad(j)
    \/ \E j \in PortJobs : PortStore(j)
    \/ ReleaseGet
    \/ ReleaseUnmap

SpecIfaces == InitIfaces /\ [][NextIfaces]_vars

----------------------------------------------------------------------------
(* Properties *)

CommitKeywords == {"MAINTAINER", "RUN", "CMD", "ENTRYPOINT", "ENV", "EXPOSE", "USER",
                   "WORKDIR", "VOLUME", "COPY", "ADD", "ONBUILD"}

\* the BuildStep call of the last loop turn (the calls for triggers come before it)
TurnRecord == steps[Len(steps)]

HandlerFailed == phase = "returned" /\ steps # <<>> /\ TurnRecord.err # NoError
LoopFinished  == phase = "returned" /\ dockerfile # <<>> /\ ~HandlerFailed

CommitStep(r) == r.dispatched /\ r.err = NoError /\ Keyword(r.expression) \in CommitKeywords

\* two configs that agree in every field but Image, the field that names the
\* parent (a cache hit of RUN leaves it as it was)
SameButImage(x, y) == [x EXCEPT !.Image = EmptyID] = [y EXCEPT !.Image = EmptyID]

\* C1: after every successful commit-producing step, cache hit or fresh commit,
\* b.image names an image of the store whose parent is the b.image held before
\* the step and whose stored config equals b.config as the step returns
C1_StoredConfigAfterStep ==
    \A i \in 1..Len(steps) :
        CommitStep(steps[i]) =>
            /\ steps[i].imageAfter \in DOMAIN images
            /\ images[steps[i].imageAfter].Parent = steps[i].imageBefore
            /\ SameButImage(images[steps[i].imageAfter].Config, steps[i].configAfter)

NoRemoteSource(lines) == \A k \in 1..Len(lines) : Keyword(lines[k]) # "ADD"

\* C2: the second of two builds of the same Dockerfile over the same context,
\* both with the cache, creates no container and returns the image id the
\* first build returned
C2_SecondBuildFromCache ==
    ( /\ buildNo = 2 /\ phase = "returned"
      /\ previous.dockerfile = dockerfile
      /\ previous.result.err = NoError /\ result.err = NoError
      /\ previous.utilizeCache /\ b.utilizeCache
      /\ NoRemoteSource(dockerfile) ) =>
        /\ created = {}
        /\ result.id = previous.result.id

\* C3: a source path that checkPathForAddition accepts resolves to the context
\* root or to a path below contextRoot + "/"
C3_AcceptedPathInsideContext ==
    pathErr = NoError =>
        LET p == EvalSymlinks(PathJoin(contextPath, pathArg), FALSE).p
        IN  p = contextPath \/ HasPrefix(p, contextPath \o <<SL>>)

\* the "Step" banners of the lines of the Dockerfile, in the order of the output
IsDigits(name) == Len(name) = 1
Banners == SelectSeq(outStream, LAMBDA e : e.ev = "Step" /\ IsDigits(e.name))

\* position in outStream of the k-th banner
RECURSIVE BannerPos(_, _)
BannerPos(k, from) ==
    IF outStream[from].ev = "Step" /\ IsDigits(outStream[from].name)
    THEN IF k = 1 THEN from ELSE BannerPos(k - 1, from + 1)
    ELSE BannerPos(k, from + 1)

\* C4: the lines are dispatched in the order of the Dockerfile, each after the
\* step before it has completed with its commit; after a handler error no
\* further line is dispatched and Build returns that error with an empty id
C4_StepsInOrderAndErrorStops ==
    /\ Len(Banners) = (IF HandlerFailed THEN stepN + 1 ELSE stepN)
    /\ Len(Banners) <= Len(dockerfile)
    /\ \A k \in 1..Len(Banners) :
          /\ Banners[k].name = <<ToString(k - 1)>>
          /\ Banners[k].expression = dockerfile[k]
    /\ \A k \in 1..(Len(Banners) - 1) :
          \* a handler that ran has reported its image before the next banner
          MethodExists(<<dockerfile[k][1]>>) =>
              \E j \in (BannerPos(k, 1) + 1)..(BannerPos(k + 1, 1) - 1) :
                  /\ outStream[j].ev = "--->"
                  /\ outStream[j].id \in DOMAIN images
                  /\ \A m \in (j + 1)..(BannerPos(k + 1, 1) - 1) : outStream[m].ev = "clearTmp"
    /\ HandlerFailed =>
          /\ result = [id |-> EmptyID, err |-> TurnRecord.err]
          /\ TurnRecord.expression = dockerfile[Len(Banners)]
          /\ outStream[Len(outStream)].ev # "Successfully built"

C4_Witness ==
    /\ HandlerFailed
    /\ stepN = 2
    /\ \E j \in 1..Len(outStream) : outStream[j].ev = "Running in"

\* C5: when the loop ends without a handler error Build returns b.image if it
\* is not empty and fails with "No image was generated" otherwise; Build never
\* returns an id together with an error, nor success with an empty id
C5_BuildResult ==
    phase = "returned" =>
        /\ ~(result.id # EmptyID /\ result.err # NoError)
        /\ ~(result.id = EmptyID /\ result.err = NoError)
        /\ LoopFinished =>
              result = IF b.image # EmptyID
                       THEN [id |-> b.image, err |-> NoError]
                       ELSE [id |-> EmptyID, err |-> ErrNoImage]

C5_Witness == LoopFinished /\ result.err = ErrNoImage /\ b.image = EmptyID /\ stepN > 0

\* C6: with forceRm, when a build ends because a handler failed and every
\* destroy call succeeded, no container the build created is left: none is
\* tracked and all are destroyed
C6_ForceRmLeavesNothing ==
    (HandlerFailed /\ b.forceRm /\ undestroyed = {}) =>
        /\ b.tmpContainers = {}
        /\ created \cap DOMAIN containers = {}

C6_Witness ==
    /\ HandlerFailed /\ b.forceRm /\ ~b.rm /\ undestroyed = {}
    /\ Cardinality(created) >= 2

\* the containers the last loop turn created
TurnCreated == TurnRecord.createdAfter \ TurnRecord.createdBefore

C8_RmClearsAfterEachStep ==
    (phase = "loop" /\ b.rm /\ stepN > 0 /\ undestroyed = {}) =>
        /\ b.tmpContainers = {}
        /\ created \cap DOMAIN containers = {}
        /\ TurnRecord.imagesAfter \subseteq DOMAIN images
        /\ b.image # EmptyID => b.image \in DOMAIN images

C8_Witness ==
    /\ phase = "loop" /\ b.rm /\ stepN > 0 /\ undestroyed = {}
    /\ TurnCreated # {}
    /\ TurnRecord.imagesAfter # TurnRecord.imagesBefore

\* the record of the clearTmp call that ended the last loop turn, if there is one
LastOut == outStream[Len(outStream)]
TurnCleaned == steps # <<>> /\ outStream # <<>> /\ LastOut.ev = "clearTmp"

\* C9: a destroy that fails does not stop the cleanup: destroy is called for
\* every tracked container, the container whose destroy failed stays tracked,
\* the destroyed ones are forgotten, and what the build returns is not changed
C9_DestroyFailureDoesNotStopCleanup ==
    TurnCleaned =>
        /\ LastOut.removed \cup LastOut.errors = TurnRecord.tracked
        /\ LastOut.removed \cap LastOut.errors = {}
        /\ b.tmpContainers = LastOut.errors
        /\ LastOut.errors \subseteq DOMAIN containers
        /\ LastOut.removed \cap DOMAIN containers = {}
        /\ LastOut.removed \cup LastOut.errors \subseteq created
        /\ b.image = TurnRecord.imageAfter
        /\ TurnRecord.err # NoError => result = [id |-> EmptyID, err |-> TurnRecord.err]
        /\ TurnRecord.err = NoError => phase = "loop"

C9_Witness ==
    /\ TurnCleaned
    /\ LastOut.errors # {}
    /\ LastOut.removed # {}

\* the triggers of the ONBUILD lines among lines[from..to] that follow the last FROM
RECURSIVE TriggersOf(_, _)
TriggersOf(lines, k) ==
    IF k = 0 \/ Keyword(lines[k]) = "FROM" THEN <<>>
    ELSE IF Keyword(lines[k]) = "ONBUILD" /\ HasArgs(lines[k])
    THEN Append(TriggersOf(lines, k - 1), Trim(SplitN2(lines[k], SP)[2], {SP}))
    ELSE TriggersOf(lines, k - 1)

Committed(r) == r.imagesAfter \ r.imagesBefore

\* C10 as stated: at every commit config.OnBuild is empty unless the step that
\* commits is the ONBUILD step
C10_OnBuildEmptyAtCommit_Original ==
    \A i \in 1..Len(steps) :
        (CommitStep(steps[i]) /\ Keyword(steps[i].expression) # "ONBUILD") =>
            \A img \in Committed(steps[i]) : images[img].Config.OnBuild = <<>>

\* C10 as amended: at every commit config.OnBuild holds the triggers of the
\* ONBUILD steps that this build ran since its last FROM, in order, and nothing
\* else; it is empty when there was none and at the commits of the triggers
\* that FROM runs
C10_OnBuildAtCommit ==
    \A i \in 1..Len(steps) :
        CommitStep(steps[i]) =>
            \A img \in Committed(steps[i]) :
                images[img].Config.OnBuild =
                    IF i = Len(steps) THEN TriggersOf(dockerfile, Len(Banners)) ELSE <<>>

C10_Witness ==
    /\ steps # <<>>
    /\ CommitStep(TurnRecord)
    /\ Keyword(TurnRecord.expression) # "ONBUILD"
    /\ Committed(TurnRecord) # {}
    /\ images[TurnRecord.imageAfter].Config.OnBuild # <<>>

\* the key of an entry of config.Env: what precedes its first "="
EnvKeyOf(entry) == SplitN2(entry, "=")[1]

UniqueKeys(env) ==
    \A i, j \in 1..Len(env) : i # j => EnvKeyOf(env[i]) # EnvKeyOf(env[j])

\* a successful ENV step of the last loop turn, with the key its line names
EnvStep(r) == r.dispatched /\ r.err = NoError /\ Keyword(r.expression) = "ENV"
EnvStepKey(r) == Trim(SplitN2(Trim(SplitN2(r.expression, SP)[2], {SP}), SP)[1], {SP, "\t"})

\* C11: config.Env holds at most one entry per key; an ENV step on a key that is
\* present replaces the entry at its index and leaves the length and the other
\* entries as they were, an ENV step on a new key appends one entry
C11_EnvOneEntryPerKey ==
    /\ UniqueKeys(b.config.Env)
    /\ \A n \in 1..Len(steps) :
          EnvStep(steps[n]) =>
              LET old == steps[n].before.config.Env
                  new == steps[n].after.config.Env
                  at  == {k \in 1..Len(old) : EnvKeyOf(old[k]) = EnvStepKey(steps[n])}
              IN  IF at # {}
                  THEN /\ Len(new) = Len(old)
                       /\ \A k \in 1..Len(old) : k \notin at => new[k] = old[k]
                  ELSE /\ Len(new) = Len(old) + 1
                       /\ SubSeq(new, 1, Len(old)) = old

\* the source and the destination a COPY or ADD line names
ContextArgs(expression) == SplitN2(Trim(SplitN2(expression, SP)[2], {SP}), SP)
SourceOf(expression) == Trim(ContextArgs(expression)[1], {SP, "\t"})

\* a source of the context for which lines 680-711 find no checksum: a path
\* the check of line 675 accepts, that is no directory and no key of the sums
NoContentHash(orig) ==
    /\ ~IsURL(orig)
    /\ checkPathForAddition(orig, FALSE) = NoError
    /\ ~StatIsDir(PathJoin(contextPath, orig), FALSE)
    /\ TrimPrefix(IF orig[1] = SL /\ Len(orig) > 1 THEN Tail(orig) ELSE orig, <<".", SL>>)
          \notin DOMAIN contextSums

\* a COPY or ADD step with the cache on whose content hash is empty
EmptyHashStep(r) ==
    /\ r.dispatched /\ Keyword(r.expression) \in {"COPY", "ADD"}
    /\ Len(ContextArgs(r.expression)) = 2
    /\ r.before.utilizeCache
    /\ r.before.image # EmptyID
    /\ NoContentHash(SourceOf(r.expression))

\* C12: in a COPY/ADD step whose content hash is empty a cache hit counts as a
\* miss: a container is created on the image the step started from, a new image
\* is committed on it, and b.image is never the cached image, also when the
\* step fails
C12_EmptyHashIgnoresCache ==
    \A n \in 1..Len(steps) :
        EmptyHashStep(steps[n]) =>
            LET r == steps[n]
                committed == r.imagesAfter \ r.imagesBefore
            IN  /\ r.imageAfter \in {r.imageBefore} \cup committed
                /\ r.err = NoError =>
                      /\ r.createdAfter # r.createdBefore
                      /\ r.imageAfter \in committed
                      /\ images[r.imageAfter].Parent = r.imageBefore

\* C13: with utilizeCache off no step asks the image store for a cached image,
\* every successful commit-producing step creates a container and commits a new
\* image, and b.image is a FROM-resolved image or an image this build committed
C13_NoCacheNoLookup ==
    ~b.utilizeCache =>
        /\ \A n \in 1..Len(steps) :
              /\ steps[n].probes = 0
              /\ CommitStep(steps[n]) =>
                    /\ steps[n].createdAfter # steps[n].createdBefore
                    /\ steps[n].imageAfter \in steps[n].imagesAfter \ steps[n].imagesBefore
        /\ b.image \in {EmptyID} \cup b.tmpImages \cup {repositories[x] : x \in DOMAIN repositories}

C13_Witness ==
    /\ ~b.utilizeCache /\ buildNo = 2 /\ steps # <<>>
    /\ CommitStep(TurnRecord)
    /\ Keyword(TurnRecord.expression) \in {"RUN", "COPY"}
    /\ previous.dockerfile = dockerfile

\* the config the image store held for a name when FROM first resolved it
ResolvedConfig(name) == IF name = <<"base">> THEN BaseImage.Config ELSE Registry[name]

\* C14: whatever the steps of a build write to b.config, the image store holds
\* for every image a FROM can resolve the config it held when the image
\* entered the store; and a FROM that runs no trigger creates no container
\* and commits no image (the only image it can add is a pulled one)
C14_FromConfigSharesNothing ==
    /\ \A name \in DOMAIN repositories :
           images[repositories[name]].Config = ResolvedConfig(name)
    /\ ( /\ Len(steps) = 1 /\ TurnRecord.dispatched /\ TurnRecord.err = NoError
         /\ Keyword(TurnRecord.expression) = "FROM" ) =>
           /\ TurnRecord.createdAfter = TurnRecord.createdBefore
           /\ \A id \in TurnRecord.imagesAfter \ TurnRecord.imagesBefore :
                  images[id].Parent = EmptyID

\* the last loop turn was a successful ENTRYPOINT step
EntrypointStep ==
    /\ steps # <<>> /\ stepN >= 1
    /\ TurnRecord.dispatched /\ TurnRecord.err = NoError
    /\ Keyword(TurnRecord.expression) = "ENTRYPOINT"

\* a CMD line stands before the line of the last loop turn: its step succeeded,
\* the loop stops at the first step that fails
CmdEarlier == \E j \in 1..(stepN - 1) : Keyword(dockerfile[j]) = "CMD"

\* the lines j+1.. of a finished Dockerfile hold no FROM and no CMD
LastCmdAt(j) ==
    /\ Keyword(dockerfile[j]) = "CMD"
    /\ \A k \in (j + 1)..Len(dockerfile) : Keyword(dockerfile[k]) \notin {"FROM", "CMD"}

ArgsOf(line) == Trim(SplitN2(line, SP)[2], {SP})

\* C15: a successful ENTRYPOINT step leaves config.Cmd empty when no CMD step
\* came earlier in the build, whatever Cmd the base image carried, and as it
\* was otherwise; so a build that ends well ends with the Cmd of its last CMD
\* line, wherever its ENTRYPOINT lines stand
C15_EntrypointAndCmd ==
    /\ EntrypointStep =>
           TurnRecord.after.config.Cmd =
               IF CmdEarlier THEN TurnRecord.before.config.Cmd ELSE <<>>
    /\ LoopFinished =>
           \A j \in 1..Len(dockerfile) :
               LastCmdAt(j) => b.config.Cmd = buildCmdFromJson(ArgsOf(dockerfile[j]))

\* ENTRYPOINT without an earlier CMD, on a base image that carries a Cmd
C15_Witness ==
    /\ EntrypointStep /\ ~CmdEarlier
    /\ TurnRecord.before.config.Cmd = << <<"x">> >>
    /\ b.config.Cmd = <<>>

\* a BuildStep call on a recognized instruction other than FROM, entered
\* while b.image is empty
NoBaseStep(r) ==
    /\ r.dispatched /\ Keyword(r.expression) # "FROM"
    /\ r.before.image = EmptyID

\* C16: while b.image is empty, every recognized instruction other than FROM
\* fails with the error that asks for a source image, creates no container,
\* commits no image and leaves b.image empty
C16_NoBaseImageError ==
    \A i \in 1..Len(steps) :
        NoBaseStep(steps[i]) =>
            /\ steps[i].err \in {ErrNoFromRun, ErrNoFromCommit}
            /\ steps[i].createdAfter = steps[i].createdBefore
            /\ steps[i].imagesAfter = steps[i].imagesBefore
            /\ steps[i].after.image = EmptyID

\* the last loop turn was a FROM step on a name the store or the registry knows
FromTurn ==
    /\ steps # <<>> /\ TurnRecord.dispatched
    /\ Keyword(TurnRecord.expression) = "FROM"
    /\ ArgsOf(TurnRecord.expression) \in {<<"base">>} \cup DOMAIN Registry

\* the BuildStep calls made for triggers during the last loop turn
TriggerSteps == SubSeq(steps, 1, Len(steps) - 1)

\* Build returned an image id
Built == phase = "returned" /\ result.err = NoError

NoOnbuildLine == \A k \in 1..Len(dockerfile) : Keyword(dockerfile[k]) # "ONBUILD"

\* the triggers of the image FROM resolved run in list order, as steps
\* onbuild-0, onbuild-1, ..., on a config whose OnBuild is empty, all of them
\* when FROM succeeds
TriggersInOrder ==
    FromTurn =>
        LET T == ResolvedConfig(ArgsOf(TurnRecord.expression)).OnBuild
        IN  /\ Len(TriggerSteps) <= Len(T)
            /\ TurnRecord.err = NoError => Len(TriggerSteps) = Len(T)
            /\ \A i \in 1..Len(TriggerSteps) :
                   /\ TriggerSteps[i].name = <<"onbuild-", ToString(i - 1)>>
                   /\ TriggerSteps[i].expression = T[i]
                   /\ TriggerSteps[i].before.config.OnBuild = <<>>

\* no image this build committed carries a trigger
CommittedWithoutTriggers == \A id \in b.tmpImages : images[id].Config.OnBuild = <<>>

\* C17, as the claim states it: triggers run in order as steps onbuild-N and,
\* in a build without ONBUILD line, every image the build committed and the
\* image it returns have an empty OnBuild list
C17_TriggersNotInherited_Original ==
    /\ TriggersInOrder
    /\ NoOnbuildLine =>
           /\ CommittedWithoutTriggers
           /\ Built => images[result.id].Config.OnBuild = <<>>

\* C17: triggers run in order as steps onbuild-N and, in a build without
\* ONBUILD line, every image the build committed has an empty OnBuild list;
\* so has the image it returns, unless that is the image FROM resolved
C17_TriggersNotInherited ==
    /\ TriggersInOrder
    /\ NoOnbuildLine =>
           /\ CommittedWithoutTriggers
           /\ ( /\ Built
                /\ \A name \in DOMAIN repositories : repositories[name] # result.id ) =>
                  images[result.id].Config.OnBuild = <<>>

\* FROM onb2 ran both triggers and each committed an image
C17_Witness ==
    /\ FromTurn /\ TurnRecord.err = NoError
    /\ Len(TriggerSteps) = 2
    /\ TriggerSteps[2].name = <<"onbuild-", "1">>
    /\ Cardinality(b.tmpImages) = 2

\* the first word of the trigger is ONBUILD, MAINTAINER or FROM, in any case
ForbiddenTrigger(trigger) ==
    ToUpper(Split(trigger, SP)[1]) \in {<<"ONBUILD">>, <<"MAINTAINER">>, <<"FROM">>}

InvalidTriggerErrors(trigger) ==
    { ErrChainedOnbuild,
      ErrTriggerNotAllowed(ToUpper(Split(trigger, SP)[1])),
      ErrSourceChained(trigger),
      ErrSourceTrigger(ToUpper(Split(trigger, SP)[1]), trigger) }

\* an ONBUILD step with a forbidden trigger fails with the trigger error and
\* changes neither config.OnBuild nor b.image nor the containers nor the images
ForbiddenOnbuildFails(r) ==
    ( /\ r.dispatched /\ Keyword(r.expression) = "ONBUILD"
      /\ ForbiddenTrigger(ArgsOf(r.expression)) ) =>
        /\ r.err \in InvalidTriggerErrors(ArgsOf(r.expression))
        /\ r.after.config.OnBuild = r.before.config.OnBuild
        /\ r.after.image = r.before.image
        /\ r.createdAfter = r.createdBefore
        /\ r.imagesAfter = r.imagesBefore

\* the images the builder committed: those that have a parent
NoForbiddenTriggerCommitted ==
    \A id \in DOMAIN images :
        images[id].Parent # EmptyID =>
            \A k \in 1..Len(images[id].Config.OnBuild) :
                ~ForbiddenTrigger(images[id].Config.OnBuild[k])

\* FROM on an image whose trigger k is the first forbidden one fails, and
\* with the trigger error once the k-1 triggers before it have run well
FromForbiddenFails ==
    FromTurn =>
        LET T == ResolvedConfig(ArgsOf(TurnRecord.expression)).OnBuild
        IN  \A k \in 1..Len(T) :
                ( /\ ForbiddenTrigger(T[k])
                  /\ \A i \in 1..(k - 1) : ~ForbiddenTrigger(T[i]) ) =>
                    /\ TurnRecord.err # NoError
                    /\ Len(TriggerSteps) <= k - 1
                    /\ ( /\ Len(TriggerSteps) = k - 1
                         /\ \A i \in 1..(k - 1) : TriggerSteps[i].err = NoError ) =>
                           TurnRecord.err \in InvalidTriggerErrors(T[k])

\* C18: an ONBUILD step whose trigger starts with ONBUILD, MAINTAINER or FROM,
\* in any letter case, fails with the trigger error, leaves config.OnBuild as
\* it was and commits nothing; no committed image carries such a trigger; and
\* FROM on an image that carries one fails with the trigger error
C18_ForbiddenTriggers ==
    /\ \A i \in 1..Len(steps) : ForbiddenOnbuildFails(steps[i])
    /\ NoForbiddenTriggerCommitted
    /\ FromForbiddenFails

\* ONBUILD from base, after a FROM: the step fails and OnBuild is as before
C18_Witness ==
    /\ steps # <<>> /\ TurnRecord.dispatched
    /\ TurnRecord.expression = Line("ONBUILD", <<"from", SP, "base">>)
    /\ TurnRecord.before.image # EmptyID
    /\ TurnRecord.err = ErrTriggerNotAllowed(<<"FROM">>)
    /\ result.err = ErrTriggerNotAllowed(<<"FROM">>)

\* a BuildStep call on a line whose first word is no instruction of the builder
UnknownStep(r) == Keyword(r.expression) \notin Keywords

\* the call changed nothing but the output: the buildFile, the containers and
\* the images are as they were
NothingBuilt(r) ==
    /\ r.after = r.before
    /\ r.createdAfter = r.createdBefore
    /\ r.imagesAfter = r.imagesBefore

\* C19, as the claim states it: a line with an unknown keyword, with or
\* without arguments, is a step that returns success and changes nothing, and
\* the loop goes on
C19_UnknownSkipped_Original ==
    /\ \A i \in 1..Len(steps) :
           UnknownStep(steps[i]) => steps[i].err = NoError /\ NothingBuilt(steps[i])
    /\ (steps # <<>> /\ UnknownStep(TurnRecord)) => ~HandlerFailed

\* C19: a line with an unknown keyword and arguments is a step that returns
\* success and changes nothing, and the loop goes on; a line that is one
\* unknown word changes nothing either but fails the build with the format error
C19_UnknownSkipped ==
    /\ \A i \in 1..Len(steps) :
           UnknownStep(steps[i]) =>
               /\ NothingBuilt(steps[i])
               /\ ~steps[i].dispatched
               /\ steps[i].err =
                      IF HasArgs(steps[i].expression) THEN NoError
                      ELSE <<"Invalid Dockerfile format">>
    /\ (steps # <<>> /\ UnknownStep(TurnRecord)) =>
           (HandlerFailed <=> phase = "returned" /\ ~HasArgs(TurnRecord.expression))

\* FOO bar after a FROM whose triggers left containers behind: skipped, and
\* the loop has gone on
C19_Witness ==
    /\ steps # <<>> /\ TurnRecord.expression = Line("FOO", <<"bar">>)
    /\ TurnRecord.err = NoError
    /\ TurnRecord.before.image # EmptyID
    /\ TurnRecord.before.tmpContainers # {}
    /\ phase = "loop" /\ stepN = 2

\* the first character of the line that is no space and no tab is '#'
CommentLine(l) ==
    LET t == TrimLeft(l, {SP, "\t"})
    IN  t # <<>> /\ t[1] = "#"

\* C20: a line whose first non-whitespace character is '#', indented or not,
\* never reaches the loop: it is no line of the Dockerfile the loop reads, no
\* BuildStep call is made for it, and no output names it
C20_CommentLinesRemoved ==
    /\ \A k \in 1..Len(dockerfile) : ~CommentLine(dockerfile[k])
    /\ \A i \in 1..Len(steps) : ~CommentLine(steps[i].expression)
    /\ \A n \in 1..Len(outStream) :
           outStream[n].ev = "Step" => ~CommentLine(outStream[n].expression)

\* C21: once Build has returned, with an image id or with an error, the
\* temporary context directory it created exists no more
C21_ContextDirRemoved ==
    phase = "returned" => tmpdirs = {}

\* a BuildStep call on a line that is neither FROM nor CMD nor ENTRYPOINT
KeepsCmdStep(r) == Keyword(r.expression) \notin {"FROM", "CMD", "ENTRYPOINT"}

\* the images a BuildStep call added to the store
CommittedBy(r) == r.imagesAfter \ r.imagesBefore

\* C22: whatever the outcome of a step that is neither FROM nor CMD nor
\* ENTRYPOINT, config.Cmd is after the step what it was before, and an image
\* the step committed stores that Cmd, not the synthetic command of the step
C22_CmdOnlyByCmdAndEntrypoint ==
    \A i \in 1..Len(steps) :
        KeepsCmdStep(steps[i]) =>
            /\ steps[i].after.config.Cmd = steps[i].before.config.Cmd
            /\ \A id \in CommittedBy(steps[i]) :
                   images[id].Config.Cmd = steps[i].before.config.Cmd

\* a RUN step that committed an image, on a config that carries a Cmd
C22_Witness ==
    /\ steps # <<>> /\ Keyword(TurnRecord.expression) = "RUN"
    /\ TurnRecord.err = NoError
    /\ TurnRecord.before.config.Cmd = << <<"x">> >>
    /\ CommittedBy(TurnRecord) = {TurnRecord.imageAfter}
    /\ images[TurnRecord.imageAfter].Config.Cmd = << <<"x">> >>
    /\ images[TurnRecord.imageAfter].ContainerConfig.Cmd # << <<"x">> >>

RunStep(r) == r.dispatched /\ Keyword(r.expression) = "RUN"

\* the containers a BuildStep call created
CreatedBy(r) == r.createdAfter \ r.createdBefore

ContextStep(r) ==
    /\ r.dispatched /\ Keyword(r.expression) \in {"COPY", "ADD"}
    /\ Len(ContextArgs(r.expression)) = 2

\* what a BuildStep call wrote to the containers it created
LayersBy(r) ==
    UNION {{r.layersAfter[c][k] : k \in 1..Len(r.layersAfter[c])} :
              c \in CreatedBy(r) \cap DOMAIN r.layersAfter}

\* C24: the source is untarred, or tried to be, only by an ADD whose source
\* is a file of the context that is no directory; and a COPY whose source is
\* a URL fails without a download, a container or an image
C24_UntarOnlyLocalAdd ==
    \A i \in 1..Len(steps) :
        ContextStep(steps[i]) =>
            /\ (\E e \in LayersBy(steps[i]) : e.untarTried \/ e.how = "UntarPath") =>
                   /\ Keyword(steps[i].expression) = "ADD"
                   /\ ~IsURL(SourceOf(steps[i].expression))
                   /\ ~StatIsDir(PathJoin(contextPath, SourceOf(steps[i].expression)), FALSE)
            /\ ( /\ Keyword(steps[i].expression) = "COPY"
                 /\ IsURL(SourceOf(steps[i].expression)) ) =>
                   /\ steps[i].err = <<"Source can't be an URL for ", "COPY">>
                   /\ steps[i].downloads = 0
                   /\ CreatedBy(steps[i]) = {}
                   /\ CommittedBy(steps[i]) = {}

\* ADD of the URL of an archive: downloaded, copied without untar, committed
C24_Witness ==
    /\ steps # <<>> /\ ContextStep(TurnRecord)
    /\ Keyword(TurnRecord.expression) = "ADD" /\ IsURL(SourceOf(TurnRecord.expression))
    /\ TurnRecord.err = NoError /\ TurnRecord.downloads = 1
    /\ CommittedBy(TurnRecord) # {}
    /\ \E e \in LayersBy(TurnRecord) : e.how = "CopyWithTar" /\ ~e.untarTried

\* the last loop turn was an ENV step that the cache answered
EnvCacheHit ==
    /\ steps # <<>> /\ EnvStep(TurnRecord)
    /\ TurnRecord.probes = 1 /\ CreatedBy(TurnRecord) = {}
    /\ TurnRecord.after.image # TurnRecord.before.image

\* C25: the image an ENV step commits carries the fingerprint #(nop) ENV
\* followed by the argument as the Dockerfile has it; so an ENV step of a
\* second build hits the cache only on a line the first build had as well
C25_EnvCommentFromOriginal ==
    /\ \A i \in 1..Len(steps) :
           EnvStep(steps[i]) =>
               \A id \in CommittedBy(steps[i]) :
                   images[id].ContainerConfig.Cmd =
                       NopCmd(<<"ENV", SP>> \o ArgsOf(steps[i].expression))
    /\ (buildNo = 2 /\ EnvCacheHit) =>
           \E k \in 1..Len(previous.dockerfile) :
               previous.dockerfile[k] = dockerfile[stepN]

\* the value of the first entry of env whose key is exactly name, or dflt
FirstValueOf(env, name, dflt) ==
    LET hits == {k \in 1..Len(env) : SplitN2(env[k], "=")[1] = name}
    IN  IF hits = {} THEN dflt ELSE SplitN2(env[Min(hits)], "=")[2]

\* one pass over s from position p: every match is replaced where it stands
RECURSIVE SinglePass(_, _, _)
SinglePass(env, s, p) ==
    IF p > Len(s) THEN <<>>
    ELSE LET e == MatchAt(s, p)
         IN  IF e = 0 THEN <<s[p]>> \o SinglePass(env, s, p + 1)
             ELSE LET m == SubSeq(s, p, e)
                      d == Index(m, "$")
                      token == SubSeq(m, d, Len(m))
                  IN  SubSeq(m, 1, d - 1)
                      \o FirstValueOf(env, Trim(token, {"$", "{", "}"}), token)
                      \o SinglePass(env, s, e + 1)

\* C26: interpolation is one pass from left to right: every unescaped $NAME
\* or ${NAME} becomes the value of the first Env entry with key NAME, a token
\* without entry stays, replaced text is not looked at again and no other
\* token is altered
C26_InterpolationSinglePass ==
    interp.done => interp.out = SinglePass(interp.env, interp.value, 1)

\* the escaped tokens of s: a backslash that no backslash precedes, then $NAME
EscapedTokens(s) ==
    { SubSeq(s, p, DollarMatchEnd(s, p + 1)) :
        p \in {q \in 1..Len(s) : /\ s[q] = "\\"
                                 /\ (q = 1 \/ s[q - 1] # "\\")
                                 /\ DollarMatchEnd(s, q + 1) > 0} }

Contains(s, sub) == \E i \in 1..Len(s) : HasPrefix(SubSeq(s, i, Len(s)), sub)

\* C27: a $NAME that follows an unescaped backslash is still in the output
\* as it was written, whatever else the value holds
C27_EscapedTokenLiteral ==
    interp.done => \A token \in EscapedTokens(interp.value) : Contains(interp.out, token)

\* builds 1 and 2 both missed the cache on USER u and have returned
BothMissed ==
    /\ builders # <<>>
    /\ \A i \in Racing : builders[i].missed /\ builders[i].pc \in {"done", "failed"}

\* the image a later probe for the step would be compared with
RaceChild(id) ==
    /\ id \in DOMAIN images
    /\ images[id].Parent = repositories[<<"base">>]
    /\ images[id].ContainerConfig.User = RaceArgs
    /\ images[id].ContainerConfig.Cmd = NopCmd(<<"USER", SP>> \o RaceArgs)

\* C28: when two builds of one Dockerfile both miss the cache for a step
\* before either commits, both return without error, the images of both
\* stay in the store, the cleanup of a build destroys no container the
\* other created, and a later build hits the cache with one of the two images
C28_ConcurrentMissBenign ==
    /\ builders # <<>> =>
           \A i \in Racing : builders[i].destroyed \subseteq {builders[i].cid}
    /\ BothMissed =>
           /\ \A i \in Racing :
                  /\ builders[i].pc = "done" /\ builders[i].err = NoError
                  /\ RaceChild(builders[i].b.image)
                  /\ (~builders[i].b.rm => builders[i].cid \in DOMAIN containers)
           /\ builders[1].b.image # builders[2].b.image
           /\ builders[Later].pc = "done" =>
                  /\ ~builders[Later].missed
                  /\ builders[Later].b.image \in {builders[i].b.image : i \in Racing}

C28_Witness ==
    /\ BothMissed
    /\ builders[Later].pc = "done"
    /\ builders[1].destroyed # {}
    /\ ~builders[2].b.rm

\* C29: every BuildStep call that reaches a handler, for a line of the
\* Dockerfile or for a trigger, passes it a non-empty argument; an expression
\* that is one word fails with Invalid Dockerfile format and reaches none, and
\* no step fails on VOLUME's check for an empty argument
C29_HandlerArgsNonEmpty ==
    \A i \in 1..Len(steps) :
        /\ steps[i].dispatched => ArgsOf(steps[i].expression) # <<>>
        /\ Len(SplitN2(steps[i].expression, SP)) # 2 =>
               ~steps[i].dispatched /\ steps[i].err = <<"Invalid Dockerfile format">>
        /\ steps[i].err # <<"Volume cannot be empty">>

\* C30: AllocatePort calls Map at most MaxAllocatedPortAttempts times; it
\* calls it again only after ErrPortAlreadyAllocated for host port 0, and once
\* for a chosen host port or any other error; when the last Map failed it
\* returns that error and leaves PortMappings as they were; when Map
\* succeeded it appends the one host address Map returned
C30_AllocatePortAttempts ==
    portJob.pc # "none" =>
        LET calls == Len(portJob.maps)
        IN  /\ calls <= MaxAllocatedPortAttempts
            /\ \A k \in 1..(calls - 1) :
                   /\ portJob.maps[k][1] = "ErrPortAlreadyAllocated"
                   /\ portJob.hostPort = 0
            /\ (portJob.pc = "returned" /\ calls > 0 /\ portJob.maps[calls] # <<"nil">> =>
                   /\ portJob.status = portJob.maps[calls]
                   /\ portJob.PortMappings = portJob.before)
            /\ (portJob.pc = "returned" /\ calls > 0 /\ portJob.maps[calls] = <<"nil">> =>
                   /\ Len(portJob.host) = 1
                   /\ portJob.PortMappings = portJob.before \o portJob.host)
            /\ (portJob.pc # "returned" => portJob.PortMappings = portJob.before)

C30_Witness ==
    /\ portJob.pc = "returned"
    /\ Len(portJob.maps) = MaxAllocatedPortAttempts
    /\ portJob.maps[MaxAllocatedPortAttempts] # <<"nil">>
    /\ portJob.before # <<>>

\* C31: when adding the address to the new bridge fails, createBridge does
\* not bring the link up and returns the error Unable to add private network;
\* it returns without error only when the address was added and the link is up
C31_AddIpFailureReported ==
    /\ bridgeJob.pc # "none" /\ bridgeJob.addIp = "failed" =>
           /\ bridgeJob.linkUp = "not called"
           /\ bridgeJob.pc = "returned" =>
                  bridgeJob.ret[1] = "Unable to add private network: "
    /\ bridgeJob.pc = "returned" /\ bridgeJob.ret = NoError =>
           bridgeJob.addIp = "ok" /\ bridgeJob.linkUp = "ok"

\* the PortMappings of the interface the registry holds for the container
RegisteredMappings ==
    LET nats == currentInterfaces.objects[IfacesGet(ContainerID)].PortMappings
    IN  {nats[k] : k \in 1..Len(nats)}

\* C32: however Allocate, AllocatePort and Release jobs interleave, when two
\* AllocatePort jobs for one container have returned the interface of the
\* container holds the host addresses of both, and a Release that starts
\* after them leaves no port of the container mapped
C32_NoLostPortMapping ==
    netJobs # <<>> =>
        /\ (\A j \in PortJobs : Returned(j)) =>
               \A j \in PortJobs : netJobs[j].host[1] \in RegisteredMappings
        /\ (Returned(ReleaseJob) /\ netJobs[ReleaseJob].late) => mappedPorts = {}

====
